---- MODULE Spec2Model ----
(***************************************************************************)
(* Model of the error-aggregation core of package sanity (guard.go):       *)
(* the Guard accumulator, its optional mutex, the materialisation done by  *)
(* Err and the multiError view.  Every caller is a process that walks      *)
(* through the code of the method it called; a critical section is one     *)
(* step taken while holding the mutex.  Go slices are modelled with their  *)
(* backing arrays (heap), so that aliasing between the Guard and a view    *)
(* is part of the state.                                                   *)
(***************************************************************************)
EXTENDS Integers, Sequences, FiniteSets, TLC

\* ------------------------------------------------------------------ bounds
\* callers of a shared thread-safe Guard (an unsynchronized Guard has one owner)
Procs == {1, 2}
\* non-nil records offered to a Guard between two Resets, single owner
MaxFailures == 7
\* the same, when the owner keeps a value of Err while using the Guard
MaxKeptFailures == 8
\* the same, thread-safe Guard with concurrent callers
MaxConcFailures == 2
\* thunks evaluated between two Resets, single owner
MaxChecks == 3
\* the same, thread-safe Guard with concurrent callers
MaxConcChecks == 2
\* length of the list handed to Run, single owner
MaxRunLen == 2
\* the same, thread-safe Guard with concurrent callers (who reach thunks
\* through CheckLazy and AddCheck)
MaxConcRunLen == 0
\* largest cap given to WithMaxErrors, single owner
MaxCap == 5
\* the same, thread-safe Guard with concurrent callers
MaxConcCap == 1
\* largest ratio given to WithCompactRatio
MaxRatio == 1

\* ------------------------------------------------------------ error values
\* An error value.  Validation failures carry their category in type; the
\* clamped notice carries (Kept, Dropped).  Nil is the nil error.
\* Field tells the records of one pass apart, as the field names of the
\* validators' errors do ("f0", "f1", ...).
Nil == [type |-> "nil", Field |-> 0, Kept |-> 0, Dropped |-> 0]

NonEmpty(i) == [type |-> "NonEmptyError", Field |-> i, Kept |-> 0, Dropped |-> 0]

NonZero(i) == [type |-> "NonZeroError", Field |-> i, Kept |-> 0, Dropped |-> 0]

\* the i-th record a validation pass produces
Record(i) == IF i % 2 = 1 THEN NonEmpty(i) ELSE NonZero(i)

ErrorsClampedError(k, d) == [type |-> "ErrorsClampedError", Field |-> 0, Kept |-> k, Dropped |-> d]

\* A thunk (func() error) is modelled by what it returns; NilFunc is the
\* nil func value.
MkFunc(r) == [isNil |-> FALSE, returns |-> r]

NilFunc == [isNil |-> TRUE, returns |-> Nil]

\* ------------------------------------------------------------------ slices
\* A Go slice: backing array (0 = none), length and capacity.  heap maps a
\* backing array to its cells (a sequence of cap elements).
NilSlice == [arr |-> 0, len |-> 0, cap |-> 0]

Elems(h, s) == [i \in 1..s.len |-> h[s.arr][i]]

GrowCap(old, need) == IF need > 2 * old THEN need ELSE 2 * old

Alloc(h) ==
    CHOOSE i \in 1..(Cardinality(DOMAIN h) + 1) :
        i \notin DOMAIN h /\ \A j \in 1..(i - 1) : j \in DOMAIN h

\* append(s, x): in place when there is room, else a new backing array
append(h, s, x) ==
    IF s.len < s.cap
    THEN [s |-> [s EXCEPT !.len = s.len + 1],
          h |-> [h EXCEPT ![s.arr][s.len + 1] = x]]
    ELSE LET a == Alloc(h)
             c == GrowCap(s.cap, s.len + 1)
             old == Elems(h, s)
             cells == [i \in 1..c |-> IF i <= s.len THEN old[i]
                                      ELSE IF i = s.len + 1 THEN x ELSE Nil]
         IN [s |-> [arr |-> a, len |-> s.len + 1, cap |-> c],
             h |-> (a :> cells) @@ h]

\* (variant: the elements of m are not copied into out)
makeCopy_empty(h, m, want) ==
    IF want = 0
    THEN [s |-> NilSlice, h |-> h]
    ELSE LET a == Alloc(h)
         IN [s |-> [arr |-> a, len |-> 0, cap |-> want],
             h |-> (a :> [i \in 1..want |-> Nil]) @@ h]

\* out := make([]error, 0, want); out = append(out, m...)
makeCopy(h, m, want) ==
    IF want = 0
    THEN [s |-> NilSlice, h |-> h]
    ELSE LET a == Alloc(h)
             old == Elems(h, m)
             cells == [i \in 1..want |-> IF i <= m.len THEN old[i] ELSE Nil]
         IN [s |-> [arr |-> a, len |-> m.len, cap |-> want],
             h |-> (a :> cells) @@ h]

\* []error{x}
sliceLit1(h, x) ==
    LET a == Alloc(h)
    IN [s |-> [arr |-> a, len |-> 1, cap |-> 1], h |-> (a :> <<x>>) @@ h]

\* ------------------------------------------------------------------- Guard
\* (variant: a negative argument is stored as given)
WithMaxErrors_asGiven(n) == n

WithMaxErrors(n) == IF n < 0 THEN 0 ELSE n

\* g := Guard{max: 1}
DefaultMax == 1

NewGuard(maxErrors, ratio, threadSafe) ==
    [e0 |-> Nil, e1 |-> Nil, e2 |-> Nil, e3 |-> Nil, more |-> NilSlice, n |-> 0,
     max |-> maxErrors, compactRatio |-> ratio, mu |-> threadSafe,
     checks |-> 0, failures |-> 0, dropped |-> 0]

\* (variant: the comparison is off by one)
atCap_offByOne(g) == g.max > 0 /\ g.n > g.max

\* g.max > 0 && g.n >= g.max
atCap(g) == g.max > 0 /\ g.n >= g.max

MGStats(g) == [Checks |-> g.checks, Failures |-> g.failures, Kept |-> g.n, Dropped |-> g.dropped]

NoStats == [Checks |-> 0, Failures |-> 0, Kept |-> 0, Dropped |-> 0]

\* (variant: the dropped counter is left as it was)
resetLocked_keepDropped(g) ==
    [g EXCEPT !.e0 = Nil, !.e1 = Nil, !.e2 = Nil, !.e3 = Nil, !.more = NilSlice,
              !.n = 0, !.checks = 0, !.failures = 0]

\* (variant: the overflow sequence is emptied in place, g.more = g.more[:0])
resetLocked_truncate(g) ==
    [g EXCEPT !.e0 = Nil, !.e1 = Nil, !.e2 = Nil, !.e3 = Nil, !.more.len = 0,
              !.n = 0, !.checks = 0, !.failures = 0, !.dropped = 0]

\* (variant: the failures counter is left as it was)
resetLocked_keepFailures(g) ==
    [g EXCEPT !.e0 = Nil, !.e1 = Nil, !.e2 = Nil, !.e3 = Nil, !.more = NilSlice,
              !.n = 0, !.checks = 0, !.dropped = 0]

\* body of Reset between lock and unlock
resetLocked(g) ==
    [g EXCEPT !.e0 = Nil, !.e1 = Nil, !.e2 = Nil, !.e3 = Nil, !.more = NilSlice,
              !.n = 0, !.checks = 0, !.failures = 0, !.dropped = 0]

\* (variant: case 3 writes the slot of case 2)
storeLocked_slip(g, h, e) ==
    CASE g.n = 0 -> [g |-> [g EXCEPT !.e0 = e], h |-> h]
      [] g.n = 1 -> [g |-> [g EXCEPT !.e1 = e], h |-> h]
      [] g.n = 2 -> [g |-> [g EXCEPT !.e2 = e], h |-> h]
      [] g.n = 3 -> [g |-> [g EXCEPT !.e2 = e], h |-> h]
      [] OTHER   -> LET r == append(h, g.more, e)
                    IN [g |-> [g EXCEPT !.more = r.s], h |-> r.h]

\* the switch of Add: where a kept record goes
storeLocked(g, h, e) ==
    CASE g.n = 0 -> [g |-> [g EXCEPT !.e0 = e], h |-> h]
      [] g.n = 1 -> [g |-> [g EXCEPT !.e1 = e], h |-> h]
      [] g.n = 2 -> [g |-> [g EXCEPT !.e2 = e], h |-> h]
      [] g.n = 3 -> [g |-> [g EXCEPT !.e3 = e], h |-> h]
      [] OTHER   -> LET r == append(h, g.more, e)
                    IN [g |-> [g EXCEPT !.more = r.s], h |-> r.h]

\* (variant: a discarded record is not counted as dropped)
addLocked_dropUncounted(g, h, e) ==
    LET g1 == [g EXCEPT !.failures = g.failures + 1]
    IN IF atCap(g1)
       THEN [g |-> g1, h |-> h]
       ELSE LET r == storeLocked(g1, h, e)
            IN [g |-> [r.g EXCEPT !.n = r.g.n + 1], h |-> r.h]

\* (variant: at the cap the newest record replaces the first one)
addLocked_lastWins(g, h, e) ==
    LET g1 == [g EXCEPT !.failures = g.failures + 1]
    IN IF atCap(g1)
       THEN [g |-> [g1 EXCEPT !.dropped = g1.dropped + 1, !.e0 = e], h |-> h]
       ELSE LET r == storeLocked(g1, h, e)
            IN [g |-> [r.g EXCEPT !.n = r.g.n + 1], h |-> r.h]

\* (variant: at the cap the record is counted as dropped and stored all the same)
addLocked_keepDropped(g, h, e) ==
    LET g1 == [g EXCEPT !.failures = g.failures + 1]
    IN IF atCap(g1)
       THEN LET r == storeLocked(g1, h, e)
            IN [g |-> [r.g EXCEPT !.dropped = r.g.dropped + 1], h |-> r.h]
       ELSE LET r == storeLocked(g1, h, e)
            IN [g |-> [r.g EXCEPT !.n = r.g.n + 1], h |-> r.h]

\* body of Add between lock and unlock
addLocked(g, h, e) ==
    LET g1 == [g EXCEPT !.failures = g.failures + 1]
    IN IF atCap(g1)
       THEN [g |-> [g1 EXCEPT !.dropped = g1.dropped + 1], h |-> h]
       ELSE LET r == storeLocked(g1, h, e)
            IN [g |-> [r.g EXCEPT !.n = r.g.n + 1], h |-> r.h]

\* (variant: the fourth slot is not counted)
countNonNil4_skipLast(a, b, c, d) ==
    (IF a # Nil THEN 1 ELSE 0) + (IF b # Nil THEN 1 ELSE 0) + (IF c # Nil THEN 1 ELSE 0)

countNonNil4(a, b, c, d) ==
    (IF a # Nil THEN 1 ELSE 0) + (IF b # Nil THEN 1 ELSE 0)
    + (IF c # Nil THEN 1 ELSE 0) + (IF d # Nil THEN 1 ELSE 0)

\* ------------------------------------------------------------------- views
\* The value Err returns: nil, one record, or a multiError.
NoView == [kind |-> "none", e0 |-> Nil, e1 |-> Nil, e2 |-> Nil, e3 |-> Nil, more |-> NilSlice]

NilView == [NoView EXCEPT !.kind = "nil"]

SingleView(e) == [NoView EXCEPT !.kind = "single", !.e0 = e]

multiError(a, b, c, d, m) == [kind |-> "multi", e0 |-> a, e1 |-> b, e2 |-> c, e3 |-> d, more |-> m]

\* Err's locals after the critical section
NoSnap == [e0 |-> Nil, e1 |-> Nil, e2 |-> Nil, e3 |-> Nil, more |-> NilSlice, dropped |-> 0, n |-> 0]

\* (variant: the thread-safe setting does not force a copy)
needCopy_unsyncRule(g, h) ==
    LET ratio == IF g.compactRatio <= 0 THEN 2 ELSE g.compactRatio
    IN g.dropped > 0 \/ (g.more.len > 0 /\ g.more.cap > ratio * g.more.len)

needCopy(g, h) ==
    LET ratio == IF g.compactRatio <= 0 THEN 2 ELSE g.compactRatio
    IN g.mu \/ g.dropped > 0 \/ (g.more.len > 0 /\ g.more.cap > ratio * g.more.len)

snapshotErrorsLocked(g, h) ==
    IF ~needCopy(g, h)
    THEN [snap |-> [e0 |-> g.e0, e1 |-> g.e1, e2 |-> g.e2, e3 |-> g.e3,
                    more |-> g.more, dropped |-> g.dropped, n |-> g.n],
          h |-> h]
    ELSE LET want == g.more.len + (IF g.dropped > 0 THEN 1 ELSE 0)
             r == makeCopy(h, g.more, want)
         IN [snap |-> [e0 |-> g.e0, e1 |-> g.e1, e2 |-> g.e2, e3 |-> g.e3,
                       more |-> r.s, dropped |-> g.dropped, n |-> g.n],
             h |-> r.h]

\* (variant: the notice is appended to the Guard's own overflow sequence)
errLocked_storeNotice(g, h) ==
    CASE g.n = 0 -> [g |-> g, snap |-> NoSnap, h |-> h]
      [] g.n = 1 -> [g |-> g, snap |-> [NoSnap EXCEPT !.e0 = g.e0, !.dropped = g.dropped, !.n = 1], h |-> h]
      [] OTHER   -> LET a == IF g.dropped > 0
                             THEN append(h, g.more, ErrorsClampedError(g.n, g.dropped))
                             ELSE [s |-> g.more, h |-> h]
                        g2 == [g EXCEPT !.more = a.s]
                        r == snapshotErrorsLocked(g2, a.h)
                    IN [g |-> g2, snap |-> r.snap, h |-> r.h]

\* (variant: the drops are forgotten once they have been reported)
errLocked_consume(g, h) ==
    CASE g.n = 0 -> [g |-> g, snap |-> NoSnap, h |-> h]
      [] g.n = 1 -> [g |-> [g EXCEPT !.dropped = 0],
                     snap |-> [NoSnap EXCEPT !.e0 = g.e0, !.dropped = g.dropped, !.n = 1], h |-> h]
      [] OTHER   -> LET r == snapshotErrorsLocked(g, h)
                    IN [g |-> [g EXCEPT !.dropped = 0], snap |-> r.snap, h |-> r.h]

\* what Err does with the lock held: the switch on gd.n
errLocked(g, h) ==
    CASE g.n = 0 -> [g |-> g, snap |-> NoSnap, h |-> h]
      [] g.n = 1 -> [g |-> g, snap |-> [NoSnap EXCEPT !.e0 = g.e0, !.dropped = g.dropped, !.n = 1], h |-> h]
      [] OTHER   -> LET r == snapshotErrorsLocked(g, h)
                    IN [g |-> g, snap |-> r.snap, h |-> r.h]

\* (variant: one kept record is wrapped in an aggregate like any other number)
errResult_wrapOne(s, h) ==
    IF s.n = 1 /\ s.e0 = Nil THEN [v |-> NilView, h |-> h]
    ELSE IF s.dropped > 0
    THEN LET kept == countNonNil4(s.e0, s.e1, s.e2, s.e3) + s.more.len
             r == append(h, s.more, ErrorsClampedError(kept, s.dropped))
         IN [v |-> multiError(s.e0, s.e1, s.e2, s.e3, r.s), h |-> r.h]
    ELSE [v |-> multiError(s.e0, s.e1, s.e2, s.e3, s.more), h |-> h]

\* (variant: with one kept record the record is returned bare, drops or not)
errResult_bare(s, h) ==
    CASE s.n = 1 ->
            IF s.e0 = Nil THEN [v |-> NilView, h |-> h]
            ELSE [v |-> SingleView(s.e0), h |-> h]
      [] OTHER ->
            IF s.dropped > 0
            THEN LET kept == countNonNil4(s.e0, s.e1, s.e2, s.e3) + s.more.len
                     r == append(h, s.more, ErrorsClampedError(kept, s.dropped))
                 IN [v |-> multiError(s.e0, s.e1, s.e2, s.e3, r.s), h |-> r.h]
            ELSE [v |-> multiError(s.e0, s.e1, s.e2, s.e3, s.more), h |-> h]

\* what Err does after unlock: build the returned value from its locals
errResult(s, h) ==
    CASE s.n = 1 ->
            IF s.e0 = Nil THEN [v |-> NilView, h |-> h]
            ELSE IF s.dropped = 0 THEN [v |-> SingleView(s.e0), h |-> h]
            ELSE LET r == sliceLit1(h, ErrorsClampedError(1, s.dropped))
                 IN [v |-> multiError(s.e0, Nil, Nil, Nil, r.s), h |-> r.h]
      [] OTHER ->
            IF s.dropped > 0
            THEN LET kept == countNonNil4(s.e0, s.e1, s.e2, s.e3) + s.more.len
                     r == append(h, s.more, ErrorsClampedError(kept, s.dropped))
                 IN [v |-> multiError(s.e0, s.e1, s.e2, s.e3, r.s), h |-> r.h]
            ELSE [v |-> multiError(s.e0, s.e1, s.e2, s.e3, s.more), h |-> h]

\* multiError.Iter with a visitor that never stops: the members visited
NonNil(e) == IF e # Nil THEN <<e>> ELSE <<>>

Iter(h, m) == NonNil(m.e0) \o NonNil(m.e1) \o NonNil(m.e2) \o NonNil(m.e3) \o Elems(h, m.more)

\* multiError.Iter with a visitor that returns false on its M-th call: the
\* members the visitor was called on.  pos walks e0..e3 (1..4, nil slots are
\* skipped) and then the overflow (5..); calls are the calls made so far.
RECURSIVE IterFrom(_, _, _, _, _)
IterFrom(h, m, pos, calls, M) ==
    LET slots == <<m.e0, m.e1, m.e2, m.e3>>
    IN IF pos > 4 + m.more.len THEN calls
       ELSE IF pos <= 4 /\ slots[pos] = Nil THEN IterFrom(h, m, pos + 1, calls, M)
       ELSE LET x == IF pos <= 4 THEN slots[pos] ELSE h[m.more.arr][pos - 4]
                now == Append(calls, x)
            IN IF Len(now) = M THEN now
               ELSE IterFrom(h, m, pos + 1, now, M)

\* (variant: the visitor's answer is honoured one call late)
IterStop_late(h, m, M) == IterFrom(h, m, 1, <<>>, M + 1)

IterStop(h, m, M) == IterFrom(h, m, 1, <<>>, M)

\* ----------------------------------------------------------- Is and As
\* category sentinels (errors.New values)
Sentinel(name) == [type |-> name, Field |-> 0, Kept |-> 0, Dropped |-> 0]

ErrNonZero == Sentinel("ErrNonZero")

ErrNonEmpty == Sentinel("ErrNonEmpty")

ErrOutOfRange == Sentinel("ErrOutOfRange")

ErrClamped == Sentinel("ErrClamped")

\* the Unwrap method of an error value; Nil for a value without one
Unwrap(e) ==
    CASE e.type = "NonZeroError"       -> ErrNonZero
      [] e.type = "NonEmptyError"      -> ErrNonEmpty
      [] e.type = "ErrorsClampedError" -> ErrClamped
      [] OTHER                         -> Nil

\* errors.Is on a value that is not a multiError: the value itself or
\* something in its Unwrap chain equals the target
RECURSIVE errorsIs(_, _)
errorsIs(e, target) ==
    IF e = Nil \/ target = Nil THEN e = target
    ELSE e = target \/ (Unwrap(e) # Nil /\ errorsIs(Unwrap(e), target))

\* (variant: the overflow sequence is not scanned)
multiErrorIs_slotsOnly(h, m, target) ==
    IF target = Nil THEN FALSE
    ELSE \/ m.e0 # Nil /\ errorsIs(m.e0, target)
         \/ m.e1 # Nil /\ errorsIs(m.e1, target)
         \/ m.e2 # Nil /\ errorsIs(m.e2, target)
         \/ m.e3 # Nil /\ errorsIs(m.e3, target)

\* multiError.Is
multiErrorIs(h, m, target) ==
    IF target = Nil THEN FALSE
    ELSE \/ m.e0 # Nil /\ errorsIs(m.e0, target)
         \/ m.e1 # Nil /\ errorsIs(m.e1, target)
         \/ m.e2 # Nil /\ errorsIs(m.e2, target)
         \/ m.e3 # Nil /\ errorsIs(m.e3, target)
         \/ \E i \in 1..m.more.len : errorsIs(h[m.more.arr][i], target)

\* errors.Is(err, target) on the value Err returned
viewIs(h, v, target) ==
    CASE v.kind = "multi"  -> multiErrorIs(h, v, target)
      [] v.kind = "single" -> errorsIs(v.e0, target)
      [] OTHER             -> target = Nil

\* The target of errors.As is modelled by the type it points to: a concrete
\* error type, one of the introspection interfaces, or "nil" for a nil target.
AsShapes == {"NonZeroError", "NonEmptyError", "ErrorsClampedError", "FieldError", "RangeError", "nil"}

\* the value's type is assignable to the target's type
Matches(e, shape) ==
    CASE shape = "FieldError" -> e.type \in {"NonZeroError", "NonEmptyError"}
      [] shape = "RangeError" -> FALSE
      [] OTHER                -> e.type = shape

NotFound == [found |-> FALSE, value |-> Nil]

\* errors.As on a value that is not a multiError
RECURSIVE errorsAs(_, _)
errorsAs(e, shape) ==
    IF e = Nil THEN NotFound
    ELSE IF Matches(e, shape) THEN [found |-> TRUE, value |-> e]
    ELSE errorsAs(Unwrap(e), shape)

\* the scan of multiError.As from position pos on: e0..e3 (1..4, nil slots
\* are skipped), then the overflow (5..)
RECURSIVE AsFrom(_, _, _, _)
AsFrom(h, m, pos, shape) ==
    LET slots == <<m.e0, m.e1, m.e2, m.e3>>
    IN IF pos > 4 + m.more.len THEN NotFound
       ELSE LET x == IF pos <= 4 THEN slots[pos] ELSE h[m.more.arr][pos - 4]
                r == errorsAs(x, shape)
            IN IF r.found THEN r ELSE AsFrom(h, m, pos + 1, shape)

\* (variant: the scan starts at e1)
multiErrorAs_skipFirst(h, m, shape) ==
    IF shape = "nil" THEN NotFound ELSE AsFrom(h, m, 2, shape)

\* multiError.As
multiErrorAs(h, m, shape) ==
    IF shape = "nil" THEN NotFound ELSE AsFrom(h, m, 1, shape)

\* errors.As(err, &target) on the value Err returned, for a non-nil target
viewAs(h, v, shape) ==
    CASE v.kind = "multi"  -> multiErrorAs(h, v, shape)
      [] v.kind = "single" -> errorsAs(v.e0, shape)
      [] OTHER             -> NotFound

\* ------------------------------------------------------------- flattening
\* (variant: the overflow sequence is left out of the flat list)
multiErrorUnwrap_slotsOnly(h, m) ==
    LET a0 == <<>>
        a1 == IF m.e0 # Nil THEN Append(a0, m.e0) ELSE a0
        a2 == IF m.e1 # Nil THEN Append(a1, m.e1) ELSE a1
        a3 == IF m.e2 # Nil THEN Append(a2, m.e2) ELSE a2
        a4 == IF m.e3 # Nil THEN Append(a3, m.e3) ELSE a3
    IN a4

\* multiError.Unwrap: out is made with room for every member, the non-nil
\* slots are appended in order, then the overflow sequence
multiErrorUnwrap(h, m) ==
    LET a0 == <<>>
        a1 == IF m.e0 # Nil THEN Append(a0, m.e0) ELSE a0
        a2 == IF m.e1 # Nil THEN Append(a1, m.e1) ELSE a1
        a3 == IF m.e2 # Nil THEN Append(a2, m.e2) ELSE a2
        a4 == IF m.e3 # Nil THEN Append(a3, m.e3) ELSE a3
    IN a4 \o Elems(h, m.more)

\* eg.Iter with a visitor that appends to dst and always returns true
RECURSIVE IterAppend(_, _, _, _)
IterAppend(h, m, pos, dst) ==
    LET slots == <<m.e0, m.e1, m.e2, m.e3>>
    IN IF pos > 4 + m.more.len THEN dst
       ELSE IF pos <= 4 /\ slots[pos] = Nil THEN IterAppend(h, m, pos + 1, dst)
       ELSE IterAppend(h, m, pos + 1,
                       Append(dst, IF pos <= 4 THEN slots[pos] ELSE h[m.more.arr][pos - 4]))

\* GroupAsSlice(err, dst): errors.As finds an ErrorGroup only in a
\* multiError (no record, notice or sentinel has an Iter method, and none
\* unwraps to a value that has)
GroupAsSlice(h, v, dst) ==
    CASE v.kind = "nil"   -> dst
      [] v.kind = "multi" -> IterAppend(h, v, 1, dst)
      [] OTHER            -> Append(dst, v.e0)

\* the methods declared on the dynamic type of an error value
MethodSet(v) ==
    CASE v.kind = "multi"                      -> {"Error", "Iter", "Is", "As", "Unwrap"}
      [] v.e0.type = "ErrorsClampedError"      -> {"Error", "Unwrap"}
      [] v.e0.type \in {"NonZeroError", "NonEmptyError"}
                                               -> {"Error", "Unwrap", "FieldName"}
      [] OTHER                                 -> {"Error"}

\* GroupLen(err): the type assertion err.(hasLen) succeeds only on a value
\* whose type declares Len() int
GroupLen(h, v) ==
    IF v.kind # "nil" /\ "Len" \in MethodSet(v)
    THEN [n |-> Len(multiErrorUnwrap(h, v)), ok |-> TRUE]
    ELSE [n |-> 0, ok |-> FALSE]

\* the member sequence of a returned value (a single record is its own member)
Members(h, v) ==
    CASE v.kind = "multi"  -> Iter(h, v)
      [] v.kind = "single" -> <<v.e0>>
      [] OTHER             -> <<>>

\* ------------------------------------------------------------------- state
VARIABLES
    gd,         \* the Guard
    lockedBy,   \* caller holding gd.mu, 0 when unlocked (always 0 when gd.mu is nil)
    heap,       \* backing arrays of the slices in use
    pc,         \* each caller's position in the method it is running
    stack,      \* each caller's return positions (Run calling AddCheck)
    err,        \* each caller's err argument / thunk result
    f,          \* each caller's thunk argument
    runChecks,  \* each caller's remaining list in Run
    snap,       \* each caller's locals in Err
    ret,        \* the call of Err, Stats or Ok a caller is in and, at "returned", its result
    prev,       \* the value a caller's last Err call returned, held while
                \* no step has mutated the Guard since
    seen,       \* the Guard's content when a caller's Err held the lock
    arrived,    \* non-nil records in the order Add took them, since Reset
    owners,     \* the callers that use the Guard
    ran,        \* the list the single owner's last call, a Run on a pristine
                \* Guard, was given
    held,       \* a value of Err a caller keeps while the Guard is used
                \* further, with its members when Err returned it
    made,       \* how the Guard was constructed: whether WithMaxErrors was
                \* given, and its argument
    num         \* a numeric variable and the arguments the helpers of
                \* sanity.go are called on with a pointer to it

\* no value of Err is kept
NoHeld == [keeping |-> FALSE, valid |-> FALSE, aliased |-> FALSE, view |-> NoView, members |-> <<>>]

\* a program that only uses the Guard never touches the numeric variable
NoNum == [pc |-> "none", arg |-> 0, p |-> 0, def |-> 0, min |-> 0, max |-> 0, was |-> 0, out |-> 0]

vars == <<gd, lockedBy, heap, pc, stack, err, f, runChecks, snap, ret, prev, seen, arrived, owners, ran, num, made, held>>

NoRet == [op |-> "none", view |-> NoView, stats |-> NoStats, ok |-> FALSE]

NoSeen == [valid |-> FALSE, n |-> 0, kept |-> <<>>, dropped |-> 0]

NoRan == [valid |-> FALSE, list |-> <<>>]

\* a traversal of the Guard's own storage
Kept(g, h) == Iter(h, multiError(g.e0, g.e1, g.e2, g.e3, g.more))

Shared == Cardinality(owners) > 1

LimitF == IF Shared THEN MaxConcFailures ELSE IF held.keeping THEN MaxKeptFailures ELSE MaxFailures

LimitC == IF Shared THEN MaxConcChecks ELSE MaxChecks

IsFailing(fn) == ~fn.isNil /\ fn.returns # Nil

\* Field numbers of the records that arrived or are on their way
InUse ==
    {arrived[i].Field : i \in DOMAIN arrived}
    \cup {held.members[i].Field : i \in DOMAIN held.members}
    \cup {err[p].Field : p \in Procs} \cup {f[p].returns.Field : p \in Procs}
    \cup UNION {{runChecks[p][i].returns.Field : i \in DOMAIN runChecks[p]} : p \in Procs}

RECURSIVE FreshFrom(_, _)
FreshFrom(used, k) ==
    IF k = 0 THEN <<>>
    ELSE LET i == CHOOSE j \in 1..(Cardinality(used) + 1) :
                      j \notin used /\ \A l \in 1..(j - 1) : l \in used
         IN <<i>> \o FreshFrom(used \cup {i}, k - 1)

\* the next k records the caller's validators produce
Fresh(k) == LET ids == FreshFrom(InUse \ {0}, k) IN [j \in 1..k |-> Record(ids[j])]

\* the thunks a caller may hand over: one that fails, one that passes, nil
Shapes == {"fail", "pass", "nil"}

RECURSIVE CountShape(_, _)
CountShape(sh, x) ==
    IF sh = <<>> THEN 0
    ELSE (IF Head(sh) = x THEN 1 ELSE 0) + CountShape(Tail(sh), x)

\* the list of thunks of the given shapes, its failing thunks returning fresh records
FuncsOf(sh) ==
    LET fresh == Fresh(CountShape(sh, "fail"))
    IN [i \in DOMAIN sh |->
           CASE sh[i] = "fail" -> MkFunc(fresh[CountShape(SubSeq(sh, 1, i), "fail")])
             [] sh[i] = "pass" -> MkFunc(Nil)
             [] OTHER          -> NilFunc]

LimitR == IF Shared THEN MaxConcRunLen ELSE MaxRunLen

RunShapes == UNION {[1..k -> Shapes] : k \in 0..LimitR}

CountFailing(l) == Cardinality({i \in DOMAIN l : IsFailing(l[i])})

CountFuncs(l) == Cardinality({i \in DOMAIN l : ~l[i].isNil})

\* records / evaluations a caller's running call may still produce
PendingF(p) ==
    (IF err[p] # Nil THEN 1 ELSE 0) + (IF IsFailing(f[p]) THEN 1 ELSE 0)
    + CountFailing(runChecks[p])

PendingC(p) ==
    (IF ~f[p].isNil /\ pc[p] \in {"CheckLazy_locked", "AddCheck", "AddCheck_locked"}
     THEN 1 ELSE 0) + CountFuncs(runChecks[p])

RECURSIVE SumPendingF(_)
SumPendingF(S) ==
    IF S = {} THEN 0
    ELSE LET x == CHOOSE y \in S : TRUE IN PendingF(x) + SumPendingF(S \ {x})

RECURSIVE SumPendingC(_)
SumPendingC(S) ==
    IF S = {} THEN 0
    ELSE LET x == CHOOSE y \in S : TRUE IN PendingC(x) + SumPendingC(S \ {x})

RoomF(k) == gd.failures + SumPendingF(Procs) + k <= LimitF

RoomC(k) == gd.checks + SumPendingC(Procs) + k <= LimitC

\* backing arrays still referenced after a step
Collect(h, g, sn, rt, pv) ==
    LET live == {g.more.arr} \cup {held.view.more.arr} \cup {sn[p].more.arr : p \in Procs}
                \cup {rt[p].view.more.arr : p \in Procs}
                \cup {pv[p].more.arr : p \in Procs}
    IN [a \in (DOMAIN h) \cap live |-> h[a]]

EmptyHeap == [a \in {} |-> <<>>]

\* The Guards built and who uses them: an unsynchronized Guard has one
\* owner; a thread-safe Guard (which ignores WithCompactRatio) has one
\* caller or is shared.
Options ==
    {[max |-> WithMaxErrors(m), ratio |-> r, ts |-> FALSE, owners |-> {1},
      withMax |-> TRUE, n |-> m] : m \in (-1)..MaxCap, r \in 0..MaxRatio}
    \cup {[max |-> WithMaxErrors(m), ratio |-> 0, ts |-> TRUE, owners |-> {1},
           withMax |-> TRUE, n |-> m] : m \in 0..MaxCap}
    \cup {[max |-> WithMaxErrors(m), ratio |-> 0, ts |-> TRUE, owners |-> Procs,
           withMax |-> TRUE, n |-> m] : m \in 0..MaxConcCap}
    \cup {[max |-> DefaultMax, ratio |-> 0, ts |-> FALSE, owners |-> {1},
           withMax |-> FALSE, n |-> 0]}

\* NewGuard and the callers before their first call
InitGuard ==
    /\ \E o \in Options :
          /\ gd = NewGuard(o.max, o.ratio, o.ts)
          /\ owners = o.owners
          /\ made = [withMax |-> o.withMax, n |-> o.n]
    /\ lockedBy = 0
    /\ heap = EmptyHeap
    /\ pc = [p \in Procs |-> "idle"]
    /\ stack = [p \in Procs |-> <<>>]
    /\ err = [p \in Procs |-> Nil]
    /\ f = [p \in Procs |-> NilFunc]
    /\ runChecks = [p \in Procs |-> <<>>]
    /\ snap = [p \in Procs |-> NoSnap]
    /\ ret = [p \in Procs |-> NoRet]
    /\ prev = [p \in Procs |-> NoView]
    /\ seen = [p \in Procs |-> NoSeen]
    /\ arrived = <<>>
    /\ ran = NoRan
    /\ num = NoNum

Init == InitGuard /\ held = NoHeld

\* ---------------------------------------------------------- lock and return
\* (variant: the mutex lets every caller in)
canLock_free(p) == TRUE

\* g.lock() can be passed
canLock(p) == gd.mu => lockedBy = 0

lock(p) == lockedBy' = IF gd.mu THEN p ELSE lockedBy

unlock(p) == lockedBy' = IF gd.mu THEN 0 ELSE lockedBy

\* A caller that has just been handed a result takes it before anyone else
\* moves: the result is local to the caller, so this loses no behaviour of
\* the Guard.
At(p, label) == pc[p] = label /\ \A q \in Procs : pc[q] # "returned"

\* the running method returns: to the position of the method that called
\* it, or to the caller, who is handed the result if there is one
Return(p) ==
    /\ pc' = [pc EXCEPT ![p] = IF stack[p] # <<>> THEN Head(stack[p])
                               ELSE IF ret[p].op = "none" THEN "idle" ELSE "returned"]
    /\ stack' = [stack EXCEPT ![p] = IF stack[p] = <<>> THEN <<>> ELSE Tail(stack[p])]

\* a caller starts a call of Err, Stats or Ok
Begin(p, op) ==
    /\ p \in owners
    /\ At(p, "idle")
    /\ ret' = [ret EXCEPT ![p] = [NoRet EXCEPT !.op = op]]
    /\ ran' = NoRan

\* a caller starts a call of a method without a result
BeginVoid(p) ==
    /\ p \in owners
    /\ At(p, "idle")
    /\ UNCHANGED ret

\* the caller takes the result; the value of an Err call is held as prev
\* if the Guard has not been mutated since that call held the lock
Returned(p) ==
    /\ pc[p] = "returned"
    /\ pc' = [pc EXCEPT ![p] = "idle"]
    /\ prev' = [prev EXCEPT ![p] = IF ret[p].op = "Err"
                                   THEN (IF seen[p].valid THEN ret[p].view ELSE NoView)
                                   ELSE prev[p]]
    /\ ret' = [ret EXCEPT ![p] = NoRet]
    /\ seen' = [seen EXCEPT ![p] = NoSeen]
    /\ heap' = Collect(heap, gd, snap, ret', prev')
    /\ UNCHANGED <<gd, lockedBy, stack, err, f, runChecks, snap, arrived, owners, num, made, held, ran>>

\* a step that mutates the Guard ends every "no mutation since" period
Touched == [q \in Procs |-> NoView]

Stale == [q \in Procs |-> [seen[q] EXCEPT !.valid = FALSE]]

\* ------------------------------------------------------------------- Stats
\* (variant: Kept is filled from the failures counter)
statsLocked_keptFromFailures(g) == [g |-> g, out |-> [MGStats(g) EXCEPT !.Kept = g.failures]]

\* body of Stats between lock and the deferred unlock
statsLocked(g) == [g |-> g, out |-> MGStats(g)]

Stats(p) ==
    /\ Begin(p, "Stats")
    /\ canLock(p)
    /\ lock(p)
    /\ pc' = [pc EXCEPT ![p] = "Stats_locked"]
    /\ UNCHANGED <<gd, heap, stack, err, f, runChecks, snap, prev, seen, arrived, owners, num, made, held>>

StatsLocked(p) ==
    /\ At(p, "Stats_locked")
    /\ LET r == statsLocked(gd)
       IN /\ gd' = r.g
          /\ ret' = [ret EXCEPT ![p].stats = r.out]
    /\ unlock(p)
    /\ Return(p)
    /\ UNCHANGED <<heap, err, f, runChecks, snap, prev, seen, arrived, owners, num, made, held, ran>>

\* ------------------------------------------------------------------- Reset
Reset(p) ==
    /\ BeginVoid(p)
    /\ ran' = NoRan
    /\ canLock(p)
    /\ lock(p)
    /\ pc' = [pc EXCEPT ![p] = "Reset_locked"]
    /\ UNCHANGED <<gd, heap, stack, err, f, runChecks, snap, prev, seen, arrived, owners, num, made, held>>

ResetLocked(p) ==
    /\ At(p, "Reset_locked")
    /\ gd' = resetLocked(gd)
    /\ arrived' = <<>>
    /\ prev' = Touched
    /\ seen' = Stale
    /\ unlock(p)
    /\ Return(p)
    /\ heap' = Collect(heap, gd', snap, ret, prev')
    /\ UNCHANGED <<err, f, runChecks, snap, ret, owners, num, made, held, ran>>

\* ---------------------------------------------------------------------- Ok
\* (variant: Ok looks at the dropped counter)
okLocked_byDropped(g) == [g |-> g, out |-> (g.dropped = 0)]

\* body of Ok between lock and unlock
okLocked(g) == [g |-> g, out |-> (g.n = 0)]

Ok(p) ==
    /\ Begin(p, "Ok")
    /\ canLock(p)
    /\ lock(p)
    /\ pc' = [pc EXCEPT ![p] = "Ok_locked"]
    /\ UNCHANGED <<gd, heap, stack, err, f, runChecks, snap, prev, seen, arrived, owners, num, made, held>>

OkLocked(p) ==
    /\ At(p, "Ok_locked")
    /\ LET r == okLocked(gd)
       IN /\ gd' = r.g
          /\ ret' = [ret EXCEPT ![p].ok = r.out]
    /\ unlock(p)
    /\ Return(p)
    /\ UNCHANGED <<heap, err, f, runChecks, snap, prev, seen, arrived, owners, num, made, held, ran>>

\* --------------------------------------------------------------------- Add
\* (variant: the nil check is missing)
addEnter_noNilCheck(p, e) ==
    /\ err' = [err EXCEPT ![p] = e]
    /\ canLock(p)
    /\ lock(p)
    /\ pc' = [pc EXCEPT ![p] = "Add_locked"]
    /\ UNCHANGED stack
    /\ UNCHANGED <<gd, heap, f, runChecks, snap, prev, seen, arrived, owners, num, made, held>>

\* if err == nil { return }; g.lock()
addEnter(p, e) ==
    /\ err' = [err EXCEPT ![p] = e]
    /\ IF e = Nil
       THEN /\ Return(p)
            /\ UNCHANGED lockedBy
       ELSE /\ canLock(p)
            /\ lock(p)
            /\ pc' = [pc EXCEPT ![p] = "Add_locked"]
            /\ UNCHANGED stack
    /\ UNCHANGED <<gd, heap, f, runChecks, snap, prev, seen, arrived, owners, num, made, held>>

\* Add called by the caller
Add(p) ==
    /\ BeginVoid(p)
    /\ ran' = NoRan
    /\ \E e \in {Fresh(1)[1], Nil} :
          /\ e # Nil => RoomF(1)
          /\ addEnter(p, e)

\* Add called by Check, CheckLazy or AddCheck
AddInner(p) ==
    /\ At(p, "Add")
    /\ addEnter(p, err[p])
    /\ UNCHANGED <<ret, ran>>

AddLocked(p) ==
    /\ At(p, "Add_locked")
    /\ LET r == addLocked(gd, heap, err[p])
       IN /\ gd' = r.g
          /\ arrived' = Append(arrived, err[p])
          /\ err' = [err EXCEPT ![p] = Nil]
          /\ prev' = Touched
          /\ seen' = Stale
          /\ unlock(p)
          /\ Return(p)
          /\ heap' = Collect(r.h, gd', snap, ret, prev')
    /\ UNCHANGED <<f, runChecks, snap, ret, owners, num, made, held, ran>>

\* ------------------------------------------------------------------- Check
\* if err == nil { return }; g.Add(err)
Check(p) ==
    /\ BeginVoid(p)
    /\ ran' = NoRan
    /\ \E e \in {Fresh(1)[1], Nil} :
          /\ e # Nil => RoomF(1)
          /\ err' = [err EXCEPT ![p] = e]
          /\ IF e = Nil
             THEN Return(p)
             ELSE /\ pc' = [pc EXCEPT ![p] = "Add"]
                  /\ UNCHANGED stack
    /\ UNCHANGED <<gd, lockedBy, heap, f, runChecks, snap, prev, seen, arrived, owners, num, made, held>>

\* ------------------------------------------------- CheckLazy and AddCheck
\* (the two methods have the same body; op is the method's name)
\* if f == nil { return }; g.lock()
lazyEnter(p, op, fn) ==
    /\ f' = [f EXCEPT ![p] = fn]
    /\ IF fn.isNil
       THEN /\ Return(p)
            /\ UNCHANGED lockedBy
       ELSE /\ canLock(p)
            /\ lock(p)
            /\ pc' = [pc EXCEPT ![p] = op \o "_locked"]
            /\ UNCHANGED stack
    /\ UNCHANGED <<gd, heap, err, runChecks, snap, prev, seen, arrived, owners, num, made, held>>

CallLazy(p, op) ==
    /\ BeginVoid(p)
    /\ ran' = NoRan
    /\ \E sh \in Shapes :
          LET fn == FuncsOf(<<sh>>)[1]
          IN /\ ~fn.isNil => RoomC(1)
             /\ IsFailing(fn) => RoomF(1)
             /\ lazyEnter(p, op, fn)

\* (variant: checks is incremented at the cap as well)
lazyLocked_countAtCap(g) == [g EXCEPT !.checks = g.checks + 1]

\* the Guard's side of the critical section of CheckLazy / AddCheck
lazyLocked(g) == IF atCap(g) THEN g ELSE [g EXCEPT !.checks = g.checks + 1]

\* (variant: the thunk is evaluated at the cap as well)
LazyLocked_noGate(p, op) ==
    /\ At(p, op \o "_locked")
    /\ gd' = [gd EXCEPT !.checks = gd.checks + 1]
    /\ unlock(p)
    /\ pc' = [pc EXCEPT ![p] = op \o "_eval"]
    /\ prev' = Touched
    /\ seen' = Stale
    /\ UNCHANGED <<stack, f>>
    /\ heap' = Collect(heap, gd', snap, ret, prev')
    /\ UNCHANGED <<err, runChecks, snap, ret, arrived, owners, num, made, held, ran>>

\* (variant: the lock is released only at the cap)
LazyLocked_holdLock(p, op) ==
    /\ At(p, op \o "_locked")
    /\ gd' = lazyLocked(gd)
    /\ IF atCap(gd) THEN unlock(p) ELSE UNCHANGED lockedBy
    /\ IF atCap(gd)
       THEN /\ Return(p)
            /\ f' = [f EXCEPT ![p] = NilFunc]
            /\ UNCHANGED <<prev, seen>>
       ELSE /\ pc' = [pc EXCEPT ![p] = op \o "_eval"]
            /\ prev' = Touched
            /\ seen' = Stale
            /\ UNCHANGED <<stack, f>>
    /\ heap' = Collect(heap, gd', snap, ret, prev')
    /\ UNCHANGED <<err, runChecks, snap, ret, arrived, owners, num, made, held, ran>>

\* at cap: unlock and return; else checks++ and unlock
LazyLocked(p, op) ==
    /\ At(p, op \o "_locked")
    /\ gd' = lazyLocked(gd)
    /\ unlock(p)
    /\ IF atCap(gd)
       THEN /\ Return(p)
            /\ f' = [f EXCEPT ![p] = NilFunc]
            /\ UNCHANGED <<prev, seen>>
       ELSE /\ pc' = [pc EXCEPT ![p] = op \o "_eval"]
            /\ prev' = Touched
            /\ seen' = Stale
            /\ UNCHANGED <<stack, f>>
    /\ heap' = Collect(heap, gd', snap, ret, prev')
    /\ UNCHANGED <<err, runChecks, snap, ret, arrived, owners, num, made, held, ran>>

\* if err := f(); err != nil { g.Add(err) }   (no lock held)
LazyEval(p, op) ==
    /\ At(p, op \o "_eval")
    /\ f' = [f EXCEPT ![p] = NilFunc]
    /\ IF f[p].returns = Nil
       THEN /\ Return(p)
            /\ UNCHANGED err
       ELSE /\ err' = [err EXCEPT ![p] = f[p].returns]
            /\ pc' = [pc EXCEPT ![p] = "Add"]
            /\ UNCHANGED stack
    /\ UNCHANGED <<gd, lockedBy, heap, runChecks, snap, ret, prev, seen, arrived, owners, num, made, held, ran>>

CheckLazy(p) == CallLazy(p, "CheckLazy")

CheckLazyLocked(p) == LazyLocked(p, "CheckLazy")

CheckLazyEval(p) == LazyEval(p, "CheckLazy")

\* AddCheck called by the caller
AddCheck(p) == CallLazy(p, "AddCheck")

\* AddCheck called by Run
AddCheckInner(p) ==
    /\ At(p, "AddCheck")
    /\ lazyEnter(p, "AddCheck", f[p])
    /\ UNCHANGED <<ret, ran>>

AddCheckLocked(p) == LazyLocked(p, "AddCheck")

AddCheckEval(p) == LazyEval(p, "AddCheck")

\* --------------------------------------------------------------------- Run
\* for _, f := range checks { g.lock() ...
runEnter(p, l) ==
    /\ runChecks' = [runChecks EXCEPT ![p] = l]
    /\ IF l = <<>>
       THEN /\ Return(p)
            /\ UNCHANGED lockedBy
       ELSE /\ canLock(p)
            /\ lock(p)
            /\ pc' = [pc EXCEPT ![p] = "Run_locked"]
            /\ UNCHANGED stack
    /\ UNCHANGED <<gd, heap, err, f, snap, prev, seen, arrived, owners, num, made, held>>

Run(p) ==
    /\ BeginVoid(p)
    /\ \E sh \in RunShapes :
          LET l == FuncsOf(sh)
          IN /\ RoomC(CountFuncs(l))
             /\ RoomF(CountFailing(l))
             /\ runEnter(p, l)
             /\ ran' = IF ~Shared /\ gd = NewGuard(gd.max, gd.compactRatio, gd.mu)
                       THEN [valid |-> TRUE, list |-> l]
                       ELSE NoRan

\* the next iteration of the loop, after AddCheck returned
RunNext(p) ==
    /\ At(p, "Run")
    /\ runEnter(p, runChecks[p])
    /\ UNCHANGED <<ret, ran>>

\* (variant: the loop takes the thunks from the end of the list)
RunLocked_fromEnd(p) ==
    /\ At(p, "Run_locked")
    /\ unlock(p)
    /\ IF atCap(gd)
       THEN /\ Return(p)
            /\ runChecks' = [runChecks EXCEPT ![p] = <<>>]
            /\ UNCHANGED f
       ELSE /\ f' = [f EXCEPT ![p] = runChecks[p][Len(runChecks[p])]]
            /\ runChecks' = [runChecks EXCEPT ![p] = SubSeq(runChecks[p], 1, Len(runChecks[p]) - 1)]
            /\ stack' = [stack EXCEPT ![p] = <<"Run">> \o stack[p]]
            /\ pc' = [pc EXCEPT ![p] = "AddCheck"]
    /\ UNCHANGED <<gd, heap, err, snap, ret, prev, seen, arrived, owners, num, made, held, ran>>

\* reached := ...; g.unlock(); if reached { return }; g.AddCheck(f)
RunLocked(p) ==
    /\ At(p, "Run_locked")
    /\ unlock(p)
    /\ IF atCap(gd)
       THEN /\ Return(p)
            /\ runChecks' = [runChecks EXCEPT ![p] = <<>>]
            /\ UNCHANGED f
       ELSE /\ f' = [f EXCEPT ![p] = Head(runChecks[p])]
            /\ runChecks' = [runChecks EXCEPT ![p] = Tail(runChecks[p])]
            /\ stack' = [stack EXCEPT ![p] = <<"Run">> \o stack[p]]
            /\ pc' = [pc EXCEPT ![p] = "AddCheck"]
    /\ UNCHANGED <<gd, heap, err, snap, ret, prev, seen, arrived, owners, num, made, held, ran>>

\* --------------------------------------------------------------------- Err
Err(p) ==
    /\ Begin(p, "Err")
    /\ canLock(p)
    /\ lock(p)
    /\ pc' = [pc EXCEPT ![p] = "Err_locked"]
    /\ UNCHANGED <<gd, heap, stack, err, f, runChecks, snap, prev, seen, arrived, owners, num, made, held>>

\* switch gd.n: case 0 returns nil at once, the others leave with locals
ErrLocked(p) ==
    /\ At(p, "Err_locked")
    /\ LET r == errLocked(gd, heap)
       IN /\ gd' = r.g
          /\ snap' = [snap EXCEPT ![p] = r.snap]
          /\ seen' = [seen EXCEPT ![p] = [valid |-> TRUE, n |-> gd.n,
                                          kept |-> Kept(gd, heap), dropped |-> gd.dropped]]
          /\ unlock(p)
          /\ IF gd.n = 0
             THEN /\ Return(p)
                  /\ ret' = [ret EXCEPT ![p].view = NilView]
             ELSE /\ pc' = [pc EXCEPT ![p] = "Err_unlocked"]
                  /\ UNCHANGED <<stack, ret>>
          /\ heap' = Collect(r.h, gd', snap', ret', prev)
    /\ UNCHANGED <<err, f, runChecks, prev, arrived, owners, num, made, held, ran>>

ErrUnlocked(p) ==
    /\ At(p, "Err_unlocked")
    /\ LET r == errResult(snap[p], heap)
       IN /\ ret' = [ret EXCEPT ![p].view = r.v]
          /\ snap' = [snap EXCEPT ![p] = NoSnap]
          /\ Return(p)
          /\ heap' = Collect(r.h, gd, snap', ret', prev)
    /\ UNCHANGED <<gd, lockedBy, err, f, runChecks, prev, seen, arrived, owners, num, made, held, ran>>

\* ------------------------------------------------------------ specification
Next ==
    \E p \in Procs :
        \/ Returned(p)
        \/ Stats(p) \/ StatsLocked(p)
        \/ Reset(p) \/ ResetLocked(p)
        \/ Ok(p) \/ OkLocked(p)
        \/ Add(p) \/ AddInner(p) \/ AddLocked(p)
        \/ Check(p)
        \/ CheckLazy(p) \/ CheckLazyLocked(p) \/ CheckLazyEval(p)
        \/ AddCheck(p) \/ AddCheckInner(p) \/ AddCheckLocked(p) \/ AddCheckEval(p)
        \/ Run(p) \/ RunNext(p) \/ RunLocked(p)
        \/ Err(p) \/ ErrLocked(p) \/ ErrUnlocked(p)

Spec == Init /\ [][Next]_vars

\* --------------------------------------------------------- one caller
\* a Guard, unsynchronized or thread-safe, that a single caller uses
InitSingle == Init /\ Cardinality(owners) = 1

SpecSingle == InitSingle /\ [][Next]_vars

\* ------------------------------------------------- gated recording only
\* a Guard with one caller,
InitLazy == Init /\ ~Shared

\* who records failures through CheckLazy, AddCheck and Run only: Add
\* runs as the call those methods make, never as a call of the caller's
NextLazy ==
    \E p \in Procs :
        \/ Returned(p)
        \/ Stats(p) \/ StatsLocked(p)
        \/ Reset(p) \/ ResetLocked(p)
        \/ Ok(p) \/ OkLocked(p)
        \/ AddInner(p) \/ AddLocked(p)
        \/ CheckLazy(p) \/ CheckLazyLocked(p) \/ CheckLazyEval(p)
        \/ AddCheck(p) \/ AddCheckInner(p) \/ AddCheckLocked(p) \/ AddCheckEval(p)
        \/ Run(p) \/ RunNext(p) \/ RunLocked(p)
        \/ Err(p) \/ ErrLocked(p) \/ ErrUnlocked(p)

SpecLazy == InitLazy /\ [][NextLazy]_vars

\* a thread-safe Guard, with one caller or shared,
InitGated == Init /\ gd.mu

\* whose callers record failures through CheckLazy, AddCheck and Run only
\* and never call Reset
NextGated ==
    \E p \in Procs :
        \/ Returned(p)
        \/ Stats(p) \/ StatsLocked(p)
        \/ Ok(p) \/ OkLocked(p)
        \/ AddInner(p) \/ AddLocked(p)
        \/ CheckLazy(p) \/ CheckLazyLocked(p) \/ CheckLazyEval(p)
        \/ AddCheck(p) \/ AddCheckInner(p) \/ AddCheckLocked(p) \/ AddCheckEval(p)
        \/ Run(p) \/ RunNext(p) \/ RunLocked(p)
        \/ Err(p) \/ ErrLocked(p) \/ ErrUnlocked(p)

SpecGated == InitGated /\ [][NextGated]_vars

\* ------------------------------------------- thunks that use the Guard
\* The thunk under evaluation calls Add, Stats or Err on the same Guard (at
\* most once); the call runs as any other and comes back into the thunk.
ThunkCalls(p) ==
    \E op \in {"CheckLazy", "AddCheck"}, m \in {"Add", "Stats", "Err"} :
        /\ At(p, op \o "_eval")
        /\ pc' = [pc EXCEPT ![p] = m]
        /\ stack' = [stack EXCEPT ![p] = <<op \o "_resume">> \o stack[p]]
        /\ IF m = "Add"
           THEN /\ RoomF(1)
                /\ err' = [err EXCEPT ![p] = Fresh(1)[1]]
           ELSE UNCHANGED err
        /\ UNCHANGED <<gd, lockedBy, heap, f, runChecks, snap, ret, prev, seen, arrived,
                       owners, num, made, held, ran>>

\* g.lock() of the Stats the thunk calls
StatsInner(p) ==
    /\ At(p, "Stats")
    /\ canLock(p)
    /\ lock(p)
    /\ pc' = [pc EXCEPT ![p] = "Stats_locked"]
    /\ UNCHANGED <<gd, heap, stack, err, f, runChecks, snap, ret, prev, seen, arrived,
                   owners, num, made, held, ran>>

\* gd.lock() of the Err the thunk calls
ErrInner(p) ==
    /\ At(p, "Err")
    /\ canLock(p)
    /\ lock(p)
    /\ pc' = [pc EXCEPT ![p] = "Err_locked"]
    /\ UNCHANGED <<gd, heap, stack, err, f, runChecks, snap, ret, prev, seen, arrived,
                   owners, num, made, held, ran>>

\* the thunk drops what its call returned and returns its own value:
\* if err := f(); err != nil { g.Add(err) }
ThunkResume(p) ==
    \E op \in {"CheckLazy", "AddCheck"} :
        /\ At(p, op \o "_resume")
        /\ f' = [f EXCEPT ![p] = NilFunc]
        /\ IF f[p].returns = Nil
           THEN /\ Return(p)
                /\ UNCHANGED err
           ELSE /\ err' = [err EXCEPT ![p] = f[p].returns]
                /\ pc' = [pc EXCEPT ![p] = "Add"]
                /\ UNCHANGED stack
        /\ ret' = [ret EXCEPT ![p] = NoRet]
        /\ seen' = [seen EXCEPT ![p] = NoSeen]
        /\ heap' = Collect(heap, gd, snap, ret', prev)
        /\ UNCHANGED <<gd, lockedBy, runChecks, snap, prev, arrived, owners, num, made, held, ran>>

\* the steps of a call that is under way
InnerStep(p) ==
    \/ Returned(p)
    \/ StatsInner(p) \/ StatsLocked(p)
    \/ ResetLocked(p)
    \/ OkLocked(p)
    \/ AddInner(p) \/ AddLocked(p)
    \/ CheckLazyLocked(p) \/ CheckLazyEval(p)
    \/ AddCheckInner(p) \/ AddCheckLocked(p) \/ AddCheckEval(p)
    \/ RunNext(p) \/ RunLocked(p)
    \/ ErrInner(p) \/ ErrLocked(p) \/ ErrUnlocked(p)
    \/ ThunkResume(p)

NextFair ==
    \E p \in Procs :
        \/ Stats(p) \/ Reset(p) \/ Ok(p) \/ Add(p) \/ Check(p)
        \/ CheckLazy(p) \/ AddCheck(p) \/ Run(p) \/ Err(p)
        \/ ThunkCalls(p)
        \/ InnerStep(p)

\* a thread-safe first-error Guard (the default cap), with one caller or shared
InitFair == InitGated /\ gd.max = DefaultMax

\* A thread-safe Guard under fair scheduling: callers are free to make no
\* further call, but a call under way is not left behind for ever.  The Go
\* scheduler runs every runnable goroutine, and sync.Mutex hands the lock
\* to a goroutine that has waited (starvation mode), so a step that is
\* possible again and again is taken.
SpecFair ==
    /\ InitFair
    /\ [][NextFair]_vars
    /\ \A p \in Procs : SF_vars(InnerStep(p))

\* ------------------------------------------------------- a value kept
\* the caller keeps an aggregate Err returned and goes on using the Guard
Keep(p) ==
    /\ ~held.valid
    /\ pc[p] = "returned"
    /\ ret[p].op = "Err"
    /\ ret[p].view.kind = "multi"
    /\ held.keeping
    /\ held' = [keeping |-> TRUE, valid |-> TRUE,
                aliased |-> ret[p].view.more.arr # 0 /\ ret[p].view.more.arr = gd.more.arr,
                view |-> ret[p].view,
                members |-> Members(heap, ret[p].view)]
    /\ pc' = [pc EXCEPT ![p] = "idle"]
    /\ prev' = [prev EXCEPT ![p] = IF seen[p].valid THEN ret[p].view ELSE NoView]
    /\ ret' = [ret EXCEPT ![p] = NoRet]
    /\ seen' = [seen EXCEPT ![p] = NoSeen]
    /\ heap' = [a \in (DOMAIN heap) \cap
                      ({gd.more.arr, ret[p].view.more.arr}
                       \cup {snap[q].more.arr : q \in Procs}
                       \cup {prev'[q].more.arr : q \in Procs}) |-> heap[a]]
    /\ UNCHANGED <<gd, lockedBy, stack, err, f, runChecks, snap, arrived, owners, num, made, ran>>

\* an unsynchronized Guard whose owner keeps a value of Err
InitHeld == InitGuard /\ ~gd.mu /\ held = [NoHeld EXCEPT !.keeping = TRUE]

\* used through Add, Reset and Err
NextHeld ==
    \E p \in Procs :
        \/ Returned(p) \/ Keep(p)
        \/ Reset(p) \/ ResetLocked(p)
        \/ Add(p) \/ AddLocked(p)
        \/ Err(p) \/ ErrLocked(p) \/ ErrUnlocked(p)

SpecHeld == InitHeld /\ [][NextHeld]_vars

\* ------------------------------------------------------ numeric helpers
\* (variant: the bounds are used as given)
Clamp_noSwap(p, min, max) ==
    IF p < min THEN min
    ELSE IF p > max THEN max
    ELSE p

\* Clamp(p, min, max): the value left in *p
Clamp(p, min, max) ==
    LET lo == IF min > max THEN max ELSE min
        hi == IF min > max THEN min ELSE max
    IN IF p < lo THEN lo
       ELSE IF p > hi THEN hi
       ELSE p

DefaultIf(v, def) == IF v = 0 THEN def ELSE v

\* SetIfZeroThenClamp(p, def, min, max): the value left in *p
SetIfZeroThenClamp(p, def, min, max) ==
    LET lo == IF min > max THEN max ELSE min
        hi == IF min > max THEN min ELSE max
        v == IF p = 0 THEN def ELSE p
    IN IF v < lo THEN lo
       ELSE IF v > hi THEN hi
       ELSE v

\* (variant: the default is returned as it is)
DefaultIfClamp_rawDefault(v, def, min, max) ==
    LET lo == IF min > max THEN max ELSE min
        hi == IF min > max THEN min ELSE max
    IN IF v = 0 THEN def
       ELSE IF v < lo THEN lo
       ELSE IF v > hi THEN hi
       ELSE v

DefaultIfClamp(v, def, min, max) ==
    LET lo == IF min > max THEN max ELSE min
        hi == IF min > max THEN min ELSE max
        w == IF v = 0 THEN def ELSE v
    IN IF w < lo THEN lo
       ELSE IF w > hi THEN hi
       ELSE w

\* the integers the helpers are called on: a range around zero and the
\* values of the documented examples
MaxNum == 2

Nums == (-MaxNum..MaxNum) \cup {3, 5, 10, 100}

\* the Guard is constructed and left alone; the variable and the arguments
\* are any of the integers
InitNum ==
    /\ gd = NewGuard(DefaultMax, 0, FALSE)
    /\ owners = {1}
    /\ made = [withMax |-> FALSE, n |-> 0]
    /\ held = NoHeld
    /\ lockedBy = 0
    /\ heap = EmptyHeap
    /\ pc = [p \in Procs |-> "idle"]
    /\ stack = [p \in Procs |-> <<>>]
    /\ err = [p \in Procs |-> Nil]
    /\ f = [p \in Procs |-> NilFunc]
    /\ runChecks = [p \in Procs |-> <<>>]
    /\ snap = [p \in Procs |-> NoSnap]
    /\ ret = [p \in Procs |-> NoRet]
    /\ prev = [p \in Procs |-> NoView]
    /\ seen = [p \in Procs |-> NoSeen]
    /\ arrived = <<>>
    /\ ran = NoRan
    /\ \E a, d, lo, hi \in Nums :
          num = [pc |-> "start", arg |-> a, p |-> a, def |-> d, min |-> lo, max |-> hi,
                 was |-> a, out |-> 0]

GuardIdle ==
    UNCHANGED <<gd, lockedBy, heap, pc, stack, err, f, runChecks, snap, ret, prev, seen,
                arrived, owners, ran, made, held>>

\* Clamp(&p, min, max)
CallClamp ==
    /\ num.pc = "start"
    /\ num' = [num EXCEPT !.pc = "clamped", !.was = num.p,
                          !.p = Clamp(num.p, num.min, num.max)]
    /\ GuardIdle

\* Clamp(&p, min, max) once more, with the same bounds
CallClampAgain ==
    /\ num.pc = "clamped"
    /\ num' = [num EXCEPT !.pc = "clamped twice", !.was = num.p,
                          !.p = Clamp(num.p, num.min, num.max)]
    /\ GuardIdle

\* out := DefaultIfClamp(p, def, min, max)
CallDefaultIfClamp ==
    /\ num.pc = "start"
    /\ num' = [num EXCEPT !.pc = "defaulted",
                          !.out = DefaultIfClamp(num.p, num.def, num.min, num.max)]
    /\ GuardIdle

\* SetIfZeroThenClamp(&p, def, min, max), after DefaultIfClamp on the same arguments
CallSetIfZeroThenClamp ==
    /\ num.pc = "defaulted"
    /\ num' = [num EXCEPT !.pc = "set", !.was = num.p,
                          !.p = SetIfZeroThenClamp(num.p, num.def, num.min, num.max)]
    /\ GuardIdle

NextNum ==
    \/ CallClamp
    \/ CallClampAgain
    \/ CallDefaultIfClamp
    \/ CallSetIfZeroThenClamp

SpecNum == InitNum /\ [][NextNum]_vars

\* ============================================================== properties
Min(a, b) == IF a < b THEN a ELSE b

Max(a, b) == IF a > b THEN a ELSE b

\* records that arrived since construction or the last Reset
N == Len(arrived)

\* how many of them a Guard with this cap keeps
KeptCount == IF gd.max = 0 THEN N ELSE Min(N, gd.max)

ErrReturned(p) == pc[p] = "returned" /\ ret[p].op = "Err"

\* Err has returned to p and no step has mutated the Guard since Err held the lock
ErrFresh(p) == ErrReturned(p) /\ seen[p].valid

StatsReturned(p) == pc[p] = "returned" /\ ret[p].op = "Stats"

IsNotice(e) == e.type = "ErrorsClampedError"

IsRecord(e) == ~IsNotice(e)

\* C1: with cap > 0 the number of kept records never exceeds cap, in every
\* reachable state of a single-owner Guard and of a shared thread-safe Guard.
C1_KeptWithinCap ==
    gd.max > 0 => gd.n <= gd.max /\ Len(Kept(gd, heap)) <= gd.max

\* two callers raced on a shared Guard with cap 1: one record kept, one dropped
C1_Witness == Shared /\ gd.max = 1 /\ gd.n = 1 /\ gd.dropped = 1

\* C2: kept + dropped = failures when cap > 0; dropped = 0 and kept = failures
\* when cap = 0; in every reachable state.
C2_Accounting ==
    IF gd.max > 0
    THEN gd.n + gd.dropped = gd.failures
    ELSE gd.dropped = 0 /\ gd.n = gd.failures

C2_Witness == gd.max = 2 /\ gd.n = 2 /\ gd.dropped = 2 /\ gd.failures = 4

\* C3: with cap = 1, after N >= 1 records: kept = 1, dropped = N - 1; Err gives
\* the bare first record when N = 1 and else the composite
\* [first record, ClampedNotice(1, N - 1)].
C3_FirstError ==
    gd.max = 1 /\ N >= 1 =>
        /\ gd.n = 1
        /\ gd.dropped = N - 1
        /\ \A p \in Procs : ErrFresh(p) =>
              IF N = 1
              THEN ret[p].view = SingleView(arrived[1])
              ELSE /\ ret[p].view.kind = "multi"
                   /\ Members(heap, ret[p].view) = <<arrived[1], ErrorsClampedError(1, N - 1)>>

C3_Witness ==
    \E p \in Procs : ErrFresh(p) /\ gd.max = 1 /\ N = 3 /\ ret[p].view.kind = "multi"

\* C4: with cap = K >= 2 and N records since the Guard was fresh, Stats
\* reports kept = min(N, K) and dropped = max(0, N - K).
C4_StatsCounts ==
    \A p \in Procs : StatsReturned(p) /\ gd.max >= 2 =>
        /\ ret[p].stats.Kept = Min(N, gd.max)
        /\ ret[p].stats.Dropped = Max(0, N - gd.max)

C4_Witness ==
    \E p \in Procs : StatsReturned(p) /\ gd.max = 3 /\ N = 5 /\ ret[p].stats.Dropped = 2

\* C5: with cap = 0 nothing is ever dropped, kept = N, and a full traversal of
\* the value Err returns visits exactly the N records in insertion order,
\* across the 4 inline slots and the overflow sequence.
C5_Unlimited ==
    gd.max = 0 =>
        /\ gd.dropped = 0
        /\ gd.n = N
        /\ \A p \in Procs : ErrFresh(p) => Members(heap, ret[p].view) = arrived

C5_Witness ==
    \E p \in Procs : ErrFresh(p) /\ gd.max = 0 /\ N = 7 /\ ret[p].view.more.len = 3

\* C6: the kept sequence is exactly the first min(N, cap) records in arrival
\* order (all of them when cap = 0), in the Guard and in every value Err
\* returns: no kept record is overwritten, removed or reordered, and a record
\* that arrived at the cap is in no view.
C6_KeptIsPrefix ==
    /\ Kept(gd, heap) = SubSeq(arrived, 1, KeptCount)
    /\ \A p \in Procs : ErrFresh(p) =>
          SelectSeq(Members(heap, ret[p].view), IsRecord) = SubSeq(arrived, 1, KeptCount)

C6_Witness ==
    \E p \in Procs : ErrFresh(p) /\ gd.max = 2 /\ N = 4 /\ gd.n = 2

\* C7: Err builds its result from the state it saw under the lock: kept = 0
\* gives nil; kept = 1 and dropped = 0 gives the record itself; otherwise a
\* composite of the kept records in order, followed by exactly one
\* ClampedNotice as the last member iff dropped > 0.
C7_ErrRules ==
    \A p \in Procs : ErrReturned(p) =>
        LET s == seen[p]
            v == ret[p].view
            m == Members(heap, v)
        IN CASE s.n = 0 -> v = NilView
             [] s.n = 1 /\ s.dropped = 0 -> v = SingleView(s.kept[1])
             [] OTHER ->
                   /\ v.kind = "multi"
                   /\ Len(m) = Len(s.kept) + (IF s.dropped > 0 THEN 1 ELSE 0)
                   /\ SubSeq(m, 1, Len(s.kept)) = s.kept
                   /\ s.dropped > 0 => IsNotice(m[Len(m)])
                   /\ \A i \in 1..Len(s.kept) : IsRecord(m[i])

\* the notice follows a copy of the overflow sequence
C7_Witness ==
    \E p \in Procs : ErrReturned(p) /\ seen[p].n = 5 /\ seen[p].dropped = 1

\* C8: two Err calls of one caller with no mutating step between them return
\* the same kind of value with equal member sequences, the (Kept, Dropped) of
\* a ClampedNotice included.
C8_ErrIdempotent ==
    \A p \in Procs : ErrReturned(p) /\ prev[p].kind # "none" =>
        /\ ret[p].view.kind = prev[p].kind
        /\ Members(heap, ret[p].view) = Members(heap, prev[p])

C8_Witness ==
    \E p \in Procs :
        /\ ErrReturned(p)
        /\ prev[p].kind = "multi"
        /\ gd.n = 2 /\ gd.dropped = 1
        /\ IsNotice(Members(heap, prev[p])[3])

\* a step of caller p inside Err, Stats or Ok
ReadOnlyStep(p) == pc'[p] # pc[p] /\ ret'[p].op \in {"Err", "Stats", "Ok"}

\* C9: Err, Stats and Ok are read-only on the Guard: none of their steps
\* changes a counter, the configuration, the stored records or the backing
\* array of the overflow sequence.
C9_ReadOnly ==
    [][\A p \in Procs : ReadOnlyStep(p) =>
          /\ gd' = gd
          /\ Kept(gd', heap') = Kept(gd, heap)
          /\ gd.more.arr # 0 => heap'[gd.more.arr] = heap[gd.more.arr]]_vars

\* Err returned a view that ends in a notice while the Guard has an overflow sequence
C9_Witness ==
    \E p \in Procs :
        /\ ErrReturned(p)
        /\ ret[p].view.kind = "multi"
        /\ gd.more.len = 1 /\ gd.dropped = 2
        /\ ret[p].view.more.len = 2

\* C10: Reset leaves the Guard equal to a freshly constructed one with the
\* same cap, thread-safe setting and compaction ratio: counters 0, storage
\* empty, Ok true, Err nil.
C10_ResetPristine ==
    [][\A p \in Procs : pc[p] = "Reset_locked" /\ pc'[p] # pc[p] =>
          /\ gd' = NewGuard(gd.max, gd.compactRatio, gd.mu)
          /\ Kept(gd', heap') = <<>>
          /\ okLocked(gd').out
          /\ errLocked(gd', heap').snap.n = 0]_vars

\* Reset has acted: the Guard is pristine while a caller's Err still holds
\* the kept and dropped records it saw before
C10_Witness ==
    \E q \in Procs :
        /\ pc[q] = "Err_unlocked" /\ snap[q].n = 1 /\ snap[q].dropped = 1
        /\ gd = NewGuard(gd.max, gd.compactRatio, gd.mu)

LockedLabels == {"CheckLazy_locked", "AddCheck_locked"}

EvalLabels == {"CheckLazy_eval", "AddCheck_eval"}

EvalOf(label) == IF label = "CheckLazy_locked" THEN "CheckLazy_eval" ELSE "AddCheck_eval"

\* C11: CheckLazy / AddCheck at the cap (cap > 0 and kept >= cap) does not
\* evaluate the thunk and changes no counter; otherwise checks grows by
\* exactly 1 and nothing else changes, the thunk is evaluated once, a non-nil
\* result is passed to Add and a nil result changes nothing more.
C11_LazyGate ==
    [][\A p \in Procs :
          /\ pc[p] \in LockedLabels /\ pc'[p] # pc[p] =>
                IF gd.max > 0 /\ gd.n >= gd.max
                THEN /\ gd' = gd
                     /\ pc'[p] \notin EvalLabels \cup {"Add", "Add_locked"}
                     /\ err'[p] = Nil
                ELSE /\ gd' = [gd EXCEPT !.checks = gd.checks + 1]
                     /\ pc'[p] = EvalOf(pc[p])
                     /\ f'[p] = f[p]
          /\ pc[p] \in EvalLabels /\ pc'[p] # pc[p] =>
                /\ gd' = gd
                /\ f'[p] = NilFunc
                /\ IF f[p].returns # Nil
                   THEN pc'[p] = "Add" /\ err'[p] = f[p].returns
                   ELSE pc'[p] \notin EvalLabels \cup {"Add", "Add_locked"} /\ err'[p] = Nil]_vars

\* a thunk passed the gate of a cap-2 Guard, was evaluated and its record is
\* on its way to Add
C11_Witness ==
    \E p \in Procs :
        /\ pc[p] = "Add" /\ err[p] # Nil
        /\ gd.max = 2 /\ gd.n = 1 /\ gd.checks = 2 /\ gd.failures = 1

\* the single owner's last call was Run on a pristine Guard and has returned
RunDone == ran.valid /\ \A p \in owners : pc[p] = "idle"

\* C12: Run evaluates its thunks in the given order and stops at the first
\* thunk for which the cap is reached: after Run on a pristine Guard with
\* cap K > 0 and a list of thunks that all fail, exactly the first
\* min(len, K) thunks were evaluated (their records arrived, in list order),
\* checks = kept = min(len, K) and dropped = 0.
C12_RunStopsAtCap ==
    RunDone /\ gd.max > 0 /\ CountFailing(ran.list) = Len(ran.list) =>
        LET k == Min(Len(ran.list), gd.max)
        IN /\ gd.checks = k
           /\ gd.n = k
           /\ gd.failures = k
           /\ gd.dropped = 0
           /\ arrived = [i \in 1..k |-> ran.list[i].returns]

\* two failing thunks, cap 1: the second one was never evaluated
C12_Witness ==
    /\ RunDone /\ gd.max = 1
    /\ Len(ran.list) = 2 /\ CountFailing(ran.list) = 2
    /\ gd.checks = 1 /\ gd.dropped = 0

\* a step in which caller p calls Add, Check, CheckLazy or AddCheck with a
\* nil argument
AbsentCall(p) ==
    \/ Add(p) /\ err'[p] = Nil
    \/ Check(p) /\ err'[p] = Nil
    \/ CheckLazy(p) /\ f'[p].isNil
    \/ AddCheck(p) /\ f'[p].isNil

\* the records the failing thunks of a list return, in list order
FailingReturns(l) == LET fl == SelectSeq(l, IsFailing) IN [i \in DOMAIN fl |-> fl[i].returns]

\* after Run on a pristine Guard whose cap the list cannot reach, every
\* non-nil thunk of the list was evaluated, the nil ones were skipped
RunSkipsNil ==
    RunDone /\ (gd.max = 0 \/ CountFailing(ran.list) < gd.max) =>
        /\ gd.checks = CountFuncs(ran.list)
        /\ gd.n = CountFailing(ran.list)
        /\ gd.dropped = 0
        /\ arrived = FailingReturns(ran.list)

\* C13: absent inputs are no-ops: Add(nil), Check(nil), CheckLazy(nil) and
\* AddCheck(nil) return at once, without taking the lock, and leave every
\* counter and the stored sequence unchanged; Run skips a nil thunk of its
\* list and still evaluates the thunks after it.
C13_AbsentNoOp ==
    /\ []RunSkipsNil
    /\ [][\A p \in Procs : AbsentCall(p) =>
             /\ gd' = gd
             /\ Kept(gd', heap') = Kept(gd, heap)
             /\ heap' = heap
             /\ lockedBy' = lockedBy
             /\ pc'[p] = "idle"]_vars

\* Run was given a nil thunk followed by a failing one: the failing one was
\* evaluated and its record kept
C13_Witness ==
    /\ RunDone
    /\ Len(ran.list) = 2 /\ ran.list[1].isNil /\ IsFailing(ran.list[2])
    /\ gd.checks = 1 /\ gd.n = 1 /\ gd.failures = 1

\* the value a call of Err returns when it runs from lock to return on
\* Guard g without interruption
ErrValue(g, h) ==
    LET r == errLocked(g, h)
    IN IF r.snap.n = 0 THEN NilView ELSE errResult(r.snap, r.h).v

\* the heap after that call (the value's overflow sequence lives in it)
ErrHeap(g, h) ==
    LET r == errLocked(g, h)
    IN IF r.snap.n = 0 THEN r.h ELSE errResult(r.snap, r.h).h

OkReturned(p) == pc[p] = "returned" /\ ret[p].op = "Ok"

\* C14: in every reachable state Ok() is true iff kept = 0, which is exactly
\* when Err() is nil; the same for the values the two methods returned.
C14_OkIffErrNil ==
    /\ okLocked(gd).out <=> gd.n = 0
    /\ ErrValue(gd, heap) = NilView <=> gd.n = 0
    /\ \A p \in Procs : OkReturned(p) => (ret[p].ok <=> gd.n = 0)
    /\ \A p \in Procs : ErrReturned(p) => (ret[p].view = NilView <=> seen[p].n = 0)

\* Ok returned false on a Guard that keeps two records, for which Err is a composite
C14_Witness ==
    \E p \in Procs :
        /\ OkReturned(p) /\ ~ret[p].ok
        /\ gd.n = 2 /\ ErrValue(gd, heap).kind = "multi"

\* C15: traversal with early exit is exact: on a view with T members, a
\* visitor that stops on its M-th call (1 <= M <= T) is called exactly M
\* times, on the first M members in order, wherever the M-th member is (inline
\* slot, overflow, notice); a visitor that never stops is called T times.
C15_EarlyExit ==
    \A p \in Procs : ErrReturned(p) /\ ret[p].view.kind = "multi" =>
        LET v == ret[p].view
            all == Iter(heap, v)
            T == Len(all)
        IN /\ \A M \in 1..T : IterStop(heap, v, M) = SubSeq(all, 1, M)
           /\ IterStop(heap, v, T + 1) = all
           /\ T = countNonNil4(v.e0, v.e1, v.e2, v.e3) + v.more.len

\* a view of 4 inline members, 1 overflow member and the notice
C15_Witness ==
    \E p \in Procs :
        /\ ErrReturned(p) /\ ret[p].view.kind = "multi"
        /\ ret[p].view.more.len = 2
        /\ IsNotice(IterStop(heap, ret[p].view, 6)[6])
        /\ Len(IterStop(heap, ret[p].view, 5)) = 5

\* the targets of a category test: the sentinels, a record value, nil
Targets == {ErrNonZero, ErrNonEmpty, ErrOutOfRange, ErrClamped, Record(1), Nil}

\* C16: the category test on a view is true iff at least one member (a kept
\* record or the notice) is or unwraps to the target, and false for a nil
\* target; so the category of a record dropped by the cap is reported only
\* if a member has it.
C16_CategoryTest ==
    \A p \in Procs : ErrFresh(p) /\ ret[p].view.kind = "multi" =>
        LET v == ret[p].view
            ms == Members(heap, v)
        IN /\ \A t \in Targets :
                 multiErrorIs(heap, v, t) <=>
                     (t # Nil /\ \E i \in DOMAIN ms : errorsIs(ms[i], t))
           /\ ~multiErrorIs(heap, v, Nil)
           /\ \A i \in (KeptCount + 1)..N :
                 multiErrorIs(heap, v, Unwrap(arrived[i])) =>
                     \E j \in 1..KeptCount : Unwrap(arrived[j]) = Unwrap(arrived[i])

\* default cap, a NonEmpty record then a NonZero record: NonEmpty and Clamped
\* are reported, NonZero is not
C16_Witness ==
    \E p \in Procs :
        /\ ErrFresh(p) /\ gd.max = 1
        /\ arrived = <<NonEmpty(1), NonZero(2)>>
        /\ viewIs(heap, ret[p].view, ErrNonEmpty)
        /\ ~viewIs(heap, ret[p].view, ErrNonZero)
        /\ viewIs(heap, ret[p].view, ErrClamped)

\* C17: on the value of Err (the kept records being field-validation
\* failures) the Clamped category test is true iff dropped > 0, and then
\* typed extraction of the notice yields the (Kept, Dropped) that Stats
\* reports for the same state.
C17_ClampedCounts ==
    \A p \in Procs : ErrFresh(p) =>
        LET v == ret[p].view
            st == statsLocked(gd).out
        IN /\ viewIs(heap, v, ErrClamped) <=> gd.dropped > 0
           /\ viewAs(heap, v, "ErrorsClampedError").found <=> gd.dropped > 0
           /\ gd.dropped > 0 =>
                 viewAs(heap, v, "ErrorsClampedError").value
                     = ErrorsClampedError(st.Kept, st.Dropped)

\* cap 2 and three records: the notice holds Kept = 2, Dropped = 1
C17_Witness ==
    \E p \in Procs :
        /\ ErrFresh(p) /\ gd.max = 2 /\ N = 3
        /\ viewIs(heap, ret[p].view, ErrClamped)
        /\ viewAs(heap, ret[p].view, "ErrorsClampedError").value = ErrorsClampedError(2, 1)

\* the least element of a non-empty set of numbers
Least(S) == CHOOSE i \in S : \A j \in S : i <= j

\* C18: typed extraction on a view examines the members in traversal order
\* (inline slots, overflow, notice) and returns the first member that matches
\* the requested shape; it reports not-found when no member matches and when
\* the target is nil.
C18_FirstMatch ==
    \A p \in Procs : ErrReturned(p) /\ ret[p].view.kind = "multi" =>
        LET v == ret[p].view
            ms == Members(heap, v)
        IN \A shape \in AsShapes :
              LET hits == {i \in DOMAIN ms : Matches(ms[i], shape)}
                  r == multiErrorAs(heap, v, shape)
              IN IF shape = "nil" \/ hits = {}
                 THEN ~r.found
                 ELSE r.found /\ r.value = ms[Least(hits)]

\* five kept records and the notice: FieldError extracts the first record,
\* NonZeroError the second, ErrorsClampedError the last member, RangeError nothing
C18_Witness ==
    \E p \in Procs :
        /\ ErrReturned(p) /\ ret[p].view.kind = "multi"
        /\ ret[p].view.more.len = 2
        /\ LET v == ret[p].view
               ms == Members(heap, v)
           IN /\ multiErrorAs(heap, v, "FieldError").value = ms[1]
              /\ multiErrorAs(heap, v, "NonZeroError").value = ms[2]
              /\ multiErrorAs(heap, v, "ErrorsClampedError").value = ms[6]
              /\ ~multiErrorAs(heap, v, "RangeError").found

\* C19: the lock is never held while caller-supplied code runs: the cap test
\* and checks++ of CheckLazy, AddCheck and Run happen under the lock, the lock
\* is released before the thunk is evaluated or AddCheck is called, and the
\* result goes through a separate Add that takes the lock again.
C19_NoLockInThunk ==
    \A p \in Procs :
        /\ pc[p] \in EvalLabels => lockedBy # p
        /\ pc[p] \in {"Add", "AddCheck", "Run"} => lockedBy # p
        /\ gd.mu /\ pc[p] \in LockedLabels \cup {"Run_locked", "Add_locked"} => lockedBy = p

\* a caller's thunk is about to run while another caller holds the lock
C19_Witness ==
    \E p, q \in Procs :
        /\ p # q /\ gd.mu
        /\ pc[p] = "AddCheck_eval" /\ ~f[p].isNil
        /\ pc[q] = "Add_locked" /\ lockedBy = q

\* positions inside a critical section
CriticalLabels ==
    {"Stats_locked", "Reset_locked", "Ok_locked", "Add_locked", "CheckLazy_locked",
     "AddCheck_locked", "Run_locked", "Err_locked"}

\* every call has returned
AllIdle == \A p \in Procs : pc[p] = "idle"

\* C20: on a thread-safe Guard concurrent Add calls are serialized and no
\* update is lost: at most one caller is inside a critical section, and once
\* all calls have returned, with A records taken since construction or the
\* last Reset: failures = A, kept = min(A, cap) (A when cap = 0), dropped =
\* A - kept, the kept records are the first kept ones in lock-acquisition
\* order, and Err contains the Clamped category whenever failures > kept.
C20_SerializedAdds ==
    gd.mu =>
        /\ \A p, q \in Procs :
              pc[p] \in CriticalLabels /\ pc[q] \in CriticalLabels => p = q
        /\ AllIdle =>
              /\ gd.failures = N
              /\ gd.n = KeptCount
              /\ gd.dropped = N - gd.n
              /\ Kept(gd, heap) = SubSeq(arrived, 1, KeptCount)
              /\ Cardinality({arrived[i].Field : i \in DOMAIN arrived}) = N
              /\ gd.failures > gd.n => viewIs(ErrHeap(gd, heap), ErrValue(gd, heap), ErrClamped)

\* two callers raced on a shared cap-1 Guard and both have returned
C20_Witness ==
    /\ Shared /\ gd.mu /\ AllIdle
    /\ gd.max = 1 /\ N = 2
    /\ gd.failures = 2 /\ gd.n = 1 /\ gd.dropped = 1
    /\ viewIs(ErrHeap(gd, heap), ErrValue(gd, heap), ErrClamped)

\* C21: a thunk that passed the gate can find the cap reached when it is
\* evaluated only under contention (a racing caller filled the Guard in
\* between); its evaluation stays counted in checks, and its record is then
\* counted as dropped and never stored beyond the cap.
C21_RaceDropsNotStores ==
    /\ \A p \in Procs : pc[p] \in EvalLabels /\ atCap(gd) => Shared /\ gd.mu
    /\ gd.max > 0 =>
          /\ Len(Kept(gd, heap)) <= gd.max
          /\ gd.dropped = N - KeptCount
          /\ \A i \in (KeptCount + 1)..N :
                \A j \in DOMAIN Kept(gd, heap) : Kept(gd, heap)[j] # arrived[i]

\* cap 1, two concurrent CheckLazy calls with failing thunks: both passed the
\* gate (checks = 2), the other caller's record was kept, and this caller's
\* thunk is evaluated at the cap
C21_Witness ==
    \E p, q \in Procs :
        /\ p # q /\ Shared /\ gd.mu /\ gd.max = 1
        /\ pc[p] = "CheckLazy_eval" /\ IsFailing(f[p])
        /\ pc[q] = "idle"
        /\ gd.checks = 2 /\ gd.failures = 1 /\ gd.n = 1 /\ gd.dropped = 0

\* the members Err builds from the content it saw under the lock
SeenMembers(p) ==
    IF seen[p].n = 0 THEN <<>>
    ELSE seen[p].kept \o (IF seen[p].dropped > 0
                          THEN <<ErrorsClampedError(seen[p].n, seen[p].dropped)>>
                          ELSE <<>>)

\* on a thread-safe Guard no slice in a caller's hands shares its backing
\* array with the Guard, and what Err returns is the content of the one state
\* it saw under the lock
OwnSnapshot ==
    gd.mu => \A p \in Procs :
        /\ snap[p].more.arr # 0 => snap[p].more.arr # gd.more.arr
        /\ ret[p].view.more.arr # 0 => ret[p].view.more.arr # gd.more.arr
        /\ prev[p].more.arr # 0 => prev[p].more.arr # gd.more.arr
        /\ ErrReturned(p) => Members(heap, ret[p].view) = SeenMembers(p)

\* C22: on a thread-safe Guard the value of Err is an independent snapshot:
\* its members and the counts of its notice are those of the single state
\* Err saw while it held the lock, it shares no storage with the Guard, and
\* steps of other callers (Add, Reset) leave a snapshot in a caller's hands
\* unchanged.
C22_Snapshot ==
    /\ []OwnSnapshot
    /\ [][gd.mu => \A p \in Procs :
             pc[p] = "Err_unlocked" /\ pc'[p] = "Err_unlocked" =>
                 /\ snap'[p] = snap[p]
                 /\ Elems(heap', snap[p].more) = Elems(heap, snap[p].more)]_vars

\* Err saw one kept record and nothing dropped; before it returned, another
\* caller's record was dropped; the value returned is the bare record
C22_Witness ==
    \E p \in Procs :
        /\ Shared /\ gd.mu /\ ErrReturned(p)
        /\ seen[p].n = 1 /\ seen[p].dropped = 0 /\ ~seen[p].valid
        /\ gd.dropped = 1
        /\ ret[p].view = SingleView(arrived[1])

\* the tuple a Stats call hands back is the Guard's counters in the state of
\* the return, and satisfies the counter identities
StatsOfOneState ==
    gd.mu => \A p \in Procs : StatsReturned(p) =>
        /\ ret[p].stats = MGStats(gd)
        /\ gd.max > 0 =>
              /\ ret[p].stats.Kept <= gd.max
              /\ ret[p].stats.Kept + ret[p].stats.Dropped = ret[p].stats.Failures

\* C23: on a thread-safe Guard Stats returns an atomic snapshot: while a
\* Stats call holds the lock no step of another caller changes the Guard, so
\* the four values are the counters of one state, with kept <= cap and
\* kept + dropped = failures for cap > 0, also while other callers are adding.
C23_AtomicStats ==
    /\ []StatsOfOneState
    /\ [][gd.mu => \A p \in Procs :
             pc[p] = "Stats_locked" /\ pc'[p] = "Stats_locked" => gd' = gd]_vars

\* Stats returns (2, 1, 1, 0) on a shared Guard of cap 1 while the other
\* caller is evaluating a thunk that passed the gate
C23_Witness ==
    \E p, q \in Procs :
        /\ p # q /\ Shared /\ gd.mu /\ gd.max = 1
        /\ StatsReturned(p)
        /\ ret[p].stats = [Checks |-> 2, Failures |-> 1, Kept |-> 1, Dropped |-> 0]
        /\ pc[q] = "CheckLazy_eval" /\ IsFailing(f[q])

\* the two outcomes of the decision in snapshotErrorsLocked, each taken
\* whatever needCopy says
SnapAliased(g, h) ==
    [snap |-> [e0 |-> g.e0, e1 |-> g.e1, e2 |-> g.e2, e3 |-> g.e3,
               more |-> g.more, dropped |-> g.dropped, n |-> g.n],
     h |-> h]

SnapCopied(g, h) ==
    LET r == makeCopy(h, g.more, g.more.len + (IF g.dropped > 0 THEN 1 ELSE 0))
    IN [snap |-> [e0 |-> g.e0, e1 |-> g.e1, e2 |-> g.e2, e3 |-> g.e3,
                  more |-> r.s, dropped |-> g.dropped, n |-> g.n],
        h |-> r.h]

\* the member sequence of the view Err builds from a snapshot
ViewMembers(r) ==
    LET x == errResult(r.snap, r.h)
    IN Members(x.h, x.v)

\* C24: on an unsynchronized Guard the copy-or-alias decision of Err is not
\* observable: for every reachable Guard state (every ratio, a ratio <= 0
\* counting as 2, and every capacity append gives the overflow sequence) the
\* view built from the aliased sequence, the view built from the copy and
\* the view Err builds have the same members, the kept records followed by
\* the notice when records were dropped; so has the view Err returned.
C24_CopyOrAlias ==
    ~gd.mu =>
        /\ gd.n >= 2 =>
              /\ ViewMembers(SnapAliased(gd, heap)) = ViewMembers(SnapCopied(gd, heap))
              /\ ViewMembers(snapshotErrorsLocked(gd, heap)) = ViewMembers(SnapAliased(gd, heap))
              /\ ViewMembers(snapshotErrorsLocked(gd, heap))
                    = Kept(gd, heap) \o (IF gd.dropped > 0
                                         THEN <<ErrorsClampedError(gd.n, gd.dropped)>>
                                         ELSE <<>>)
        /\ \A p \in Procs : ErrReturned(p) => Members(heap, ret[p].view) = SeenMembers(p)

\* ratio 1, an overflow sequence of 3 records in an array of 4: Err copied,
\* and the view returned holds the 7 records in its own array
C24_Witness ==
    \E p \in Procs :
        /\ ~gd.mu /\ gd.compactRatio = 1 /\ gd.dropped = 0
        /\ gd.more.len = 3 /\ gd.more.cap = 4
        /\ ErrReturned(p)
        /\ ret[p].view.more.arr # gd.more.arr
        /\ Len(Members(heap, ret[p].view)) = 7

\* the destinations GroupAsSlice is given
Dsts == {<<>>, <<ErrOutOfRange>>, <<ErrOutOfRange, Record(1)>>}

\* C25: flattening agrees with traversal: Unwrap() of a view Err returned is
\* the list of members a full Iter visits, in order, kept records first and
\* the notice last; GroupAsSlice(err, dst) is dst followed by those members;
\* for a non-aggregate non-nil error it is dst followed by that error, and
\* for nil it is dst.
C25_Flatten ==
    /\ \A p \in Procs : ErrReturned(p) /\ ret[p].view.kind = "multi" =>
          LET v == ret[p].view
              full == IterStop(heap, v, 0)
          IN /\ multiErrorUnwrap(heap, v) = full
             /\ multiErrorUnwrap(heap, v) = SeenMembers(p)
             /\ Len(multiErrorUnwrap(heap, v)) = countNonNil4(v.e0, v.e1, v.e2, v.e3) + v.more.len
             /\ \A dst \in Dsts : GroupAsSlice(heap, v, dst) = dst \o full
    /\ \A p \in Procs : ErrReturned(p) /\ ret[p].view.kind = "single" =>
          \A dst \in Dsts : GroupAsSlice(heap, ret[p].view, dst) = dst \o <<ret[p].view.e0>>
    /\ \A p \in Procs : ErrReturned(p) /\ ret[p].view.kind = "nil" =>
          \A dst \in Dsts : GroupAsSlice(heap, ret[p].view, dst) = dst
    /\ \A e \in Targets \ {Nil} : \A dst \in Dsts :
          GroupAsSlice(heap, SingleView(e), dst) = Append(dst, e)

\* cap 5 and six records: the flat list is the 5 kept records (4 inline, 1 in
\* the overflow) and the notice; appended to a destination of one it gives 7
C25_Witness ==
    \E p \in Procs :
        /\ ErrFresh(p) /\ gd.max = 5 /\ gd.dropped = 1
        /\ ret[p].view.kind = "multi" /\ ret[p].view.more.len = 2
        /\ Len(multiErrorUnwrap(heap, ret[p].view)) = 6
        /\ multiErrorUnwrap(heap, ret[p].view)[6] = ErrorsClampedError(5, 1)
        /\ Len(GroupAsSlice(heap, ret[p].view, <<ErrOutOfRange>>)) = 7

\* C26: for an aggregate value returned by Err, GroupLen returns (number of
\* members, true).
C26_GroupLen ==
    \A p \in Procs : ErrReturned(p) /\ ret[p].view.kind = "multi" =>
        GroupLen(heap, ret[p].view) = [n |-> Len(Members(heap, ret[p].view)), ok |-> TRUE]

\* Err returned an aggregate of two records, and GroupLen answers (0, false)
C26_Witness ==
    \E p \in Procs :
        /\ ErrFresh(p) /\ ret[p].view.kind = "multi"
        /\ Len(Members(heap, ret[p].view)) = 2
        /\ GroupLen(heap, ret[p].view) = [n |-> 0, ok |-> FALSE]

\* C27: Clamp(p, min, max) leaves *p in [lo, hi], lo and hi being min and max
\* swapped when min > max: a value in the interval is unchanged, a value below
\* lo becomes lo, a value above hi becomes hi; and a second Clamp with the same
\* bounds changes nothing.
C27_Clamp ==
    LET lo == Min(num.min, num.max)
        hi == Max(num.min, num.max)
    IN /\ num.pc = "clamped" =>
             /\ lo <= num.p /\ num.p <= hi
             /\ num.was \in lo..hi => num.p = num.was
             /\ num.was < lo => num.p = lo
             /\ num.was > hi => num.p = hi
       /\ num.pc = "clamped twice" =>
             /\ num.p = num.was
             /\ num.p = Clamp(num.arg, num.min, num.max)

\* 5 clamped twice with min = 3 and max = -2 (swapped) is 3
C27_Witness ==
    /\ num.pc = "clamped twice"
    /\ num.arg = 5 /\ num.min = 3 /\ num.max = -2
    /\ num.p = 3

\* C28: DefaultIfClamp(v, def, min, max) is v, replaced by def when it is
\* zero, clamped into [min, max] with the bounds swapped when min > max, and
\* it is the value SetIfZeroThenClamp leaves in *p for the same arguments;
\* DefaultIfClamp(0, 5, 1, 3) = 3 and DefaultIfClamp(0, 100, 10, 1) = 10.
C28_DefaultIfClamp ==
    /\ num.pc \in {"defaulted", "set"} =>
          /\ num.out = Clamp(DefaultIf(num.arg, num.def), num.min, num.max)
          /\ Min(num.min, num.max) <= num.out /\ num.out <= Max(num.min, num.max)
    /\ num.pc = "set" => num.p = num.out
    /\ num.pc = "defaulted" /\ num.arg = 0 /\ num.def = 5 /\ num.min = 1 /\ num.max = 3 =>
          num.out = 3
    /\ num.pc = "defaulted" /\ num.arg = 0 /\ num.def = 100 /\ num.min = 10 /\ num.max = 1 =>
          num.out = 10

\* the second example: zero, default 100, min 10, max 1 gives 10 both ways
C28_Witness ==
    /\ num.pc = "set"
    /\ num.arg = 0 /\ num.def = 100 /\ num.min = 10 /\ num.max = 1
    /\ num.out = 10 /\ num.p = 10

\* C29: WithMaxErrors(n) with n < 0 makes the Guard unlimited (cap 0): every
\* record that arrives is kept and none is dropped; a Guard made by NewGuard
\* with no options has cap 1.
C29_NegativeIsUnlimited ==
    /\ made.withMax /\ made.n < 0 =>
          /\ gd.max = 0
          /\ gd.dropped = 0
          /\ gd.n = N /\ gd.failures = N
          /\ Kept(gd, heap) = arrived
    /\ made.withMax /\ made.n >= 0 => gd.max = made.n
    /\ ~made.withMax => gd.max = 1

\* a Guard made with WithMaxErrors(-1) holds all of seven records
C29_Witness ==
    /\ made.withMax /\ made.n = -1
    /\ N = 7 /\ gd.n = 7 /\ gd.failures = 7 /\ gd.dropped = 0

\* C30: whenever dropped > 0 the Guard holds exactly cap records, cap > 0;
\* so every notice in a value Err returned carries Kept = cap (and
\* Dropped > 0), on a single-owner and on a shared thread-safe Guard, and
\* also when a Reset and new Adds came before.
C30_NoticeKeptIsCap ==
    /\ gd.dropped > 0 => gd.max > 0 /\ gd.n = gd.max
    /\ \A p \in Procs : snap[p].dropped > 0 => snap[p].n = gd.max
    /\ \A p \in Procs : ErrReturned(p) =>
          LET ms == Members(heap, ret[p].view)
          IN \A i \in DOMAIN ms :
                IsNotice(ms[i]) => ms[i].Kept = gd.max /\ ms[i].Dropped > 0 /\ i = gd.max + 1

\* a shared Guard of cap 1 was Reset while the other caller was inside
\* CheckLazy (whose check is no longer counted); two Adds later Err returns
\* the first record and a notice with Kept = 1, Dropped = 1
C30_Witness ==
    \E p, q \in Procs :
        /\ p # q /\ Shared /\ gd.mu /\ gd.max = 1
        /\ pc[q] = "CheckLazy_eval" /\ gd.checks = 0
        /\ ErrReturned(p)
        /\ N = 2
        /\ Members(heap, ret[p].view) = <<arrived[1], ErrorsClampedError(1, 1)>>

\* the number of members Err owes for a content of n kept records and d drops
Owed(n, d) == n + (IF d > 0 THEN 1 ELSE 0)

\* C31: an aggregate returned by Err has at least two members, exactly
\* kept + (1 if dropped > 0 else 0); Err never returns an aggregate of one
\* member, and never a bare notice: a value that is not an aggregate is the
\* one kept record, with nothing dropped.
C31_AggregateShape ==
    /\ \A p \in Procs : ErrReturned(p) =>
          LET v == ret[p].view
          IN /\ v.kind \in {"nil", "single", "multi"}
             /\ v.kind = "multi" =>
                   /\ Len(Members(heap, v)) >= 2
                   /\ Len(Members(heap, v)) = Owed(seen[p].n, seen[p].dropped)
             /\ v.kind = "single" =>
                   IsRecord(v.e0) /\ seen[p].n = 1 /\ seen[p].dropped = 0
             /\ v.kind = "nil" => seen[p].n = 0
    /\ LET v == ErrValue(gd, heap)
           h == ErrHeap(gd, heap)
       IN /\ v.kind = "multi" =>
                Len(Members(h, v)) >= 2 /\ Len(Members(h, v)) = Owed(gd.n, gd.dropped)
          /\ v.kind = "single" => IsRecord(v.e0) /\ gd.dropped = 0

\* the smallest aggregate: cap 1, one kept record and the notice of one drop
C31_Witness ==
    \E p \in Procs :
        /\ ErrFresh(p) /\ gd.max = 1 /\ gd.n = 1 /\ gd.dropped = 1
        /\ ret[p].view.kind = "multi"
        /\ Len(Members(heap, ret[p].view)) = 2
        /\ IsNotice(Members(heap, ret[p].view)[2])

\* C32: for a single caller that records failures only through CheckLazy,
\* AddCheck and Run, nothing is ever dropped and failures = kept <= checks,
\* in every reachable state.
C32_GatedNeverDrops ==
    /\ gd.dropped = 0
    /\ gd.failures = gd.n
    /\ gd.n <= gd.checks
    /\ gd.max > 0 => gd.n <= gd.max

\* cap 2 reached by two failing thunks out of three evaluated
C32_Witness ==
    /\ gd.max = 2 /\ gd.n = 2 /\ gd.failures = 2 /\ gd.checks = 3
    /\ AllIdle

\* callers past the gate of CheckLazy / AddCheck whose call has not returned:
\* the thunk is being evaluated, or the record it returned is on its way
\* into Add
InFlight == {p \in Procs : pc[p] \in EvalLabels \cup {"Add", "Add_locked"}}

GatedCounters ==
    /\ gd.failures <= gd.checks
    /\ ~atCap(gd) => gd.dropped = 0
    /\ gd.dropped <= Cardinality(owners) - 1

\* C33: on a thread-safe Guard whose callers record failures only through
\* CheckLazy, AddCheck and Run and never Reset, failures <= checks in every
\* reachable state, and nothing is dropped before the cap is reached; from
\* then on no caller passes the gate and every drop is the record of a
\* caller that was past the gate, so dropped is at most the number of callers
\* whose thunk was being evaluated when the cap was reached.
C33_DropsBoundedByRacers ==
    /\ []GatedCounters
    /\ [][atCap(gd) =>
             gd'.dropped + Cardinality(InFlight') <= gd.dropped + Cardinality(InFlight)]_vars

\* two callers, cap 1: both thunks passed the gate, one record was kept and
\* the other dropped
C33_Witness ==
    /\ Shared /\ gd.max = 1
    /\ gd.checks = 2 /\ gd.failures = 2 /\ gd.n = 1 /\ gd.dropped = 1
    /\ AllIdle

\* a caller holds the lock exactly while it is inside a critical section
LockHeldInside ==
    gd.mu =>
        /\ \A p \in Procs : lockedBy = p <=> pc[p] \in CriticalLabels
        /\ Cardinality({p \in Procs : pc[p] \in CriticalLabels}) <= 1

C35_KeptValueStable ==
    /\ held.valid => Members(heap, held.view) = held.members
    /\ held.valid /\ IsNotice(held.members[Len(held.members)]) =>
          held.view.more.arr # gd.more.arr
    /\ \A p \in Procs : ErrReturned(p) /\ seen[p].dropped > 0 =>
          /\ ret[p].view.more.arr # 0
          /\ ret[p].view.more.arr # gd.more.arr
          /\ held.valid => ret[p].view.more.arr # held.view.more.arr

\* the value kept shares the Guard's overflow array, and the Guard has since
\* appended a record to that array in place
C35_Witness ==
    /\ held.valid /\ held.aliased
    /\ held.view.more.arr = gd.more.arr
    /\ held.view.more.len = 3 /\ gd.more.len = 4
    /\ Len(held.members) = 7 /\ Len(Kept(gd, heap)) = 8

\* the Guard NewGuard builds from the same options with WithThreadSafe
\* given instead of left out, or left out instead of given
OtherMode(g) == [g EXCEPT !.mu = ~g.mu]

\* records a caller may pass to Add
SomeRecords == {NonEmpty(1), NonZero(2)}

\* C36: for a single caller locking changes no observable result: in every
\* state of a Guard with one owner, the Guard built with the other locking
\* option returns the same Stats, the same Ok and a value of Err with the
\* same members, passes the same gate in CheckLazy, AddCheck and Run, and
\* is taken by Add, Reset and the check counter to the same state apart from
\* the mutex; the results the owner was handed are those of the other Guard;
\* and the owner never finds the mutex taken outside a critical section.
C36_LockingUnobservable ==
    ~Shared =>
        LET t == OtherMode(gd)
        IN /\ statsLocked(t) = [g |-> t, out |-> statsLocked(gd).out]
           /\ okLocked(t) = [g |-> t, out |-> okLocked(gd).out]
           /\ errLocked(t, heap).g = t /\ errLocked(gd, heap).g = gd
           /\ Members(ErrHeap(t, heap), ErrValue(t, heap))
                 = Members(ErrHeap(gd, heap), ErrValue(gd, heap))
           /\ ErrValue(t, heap).kind = ErrValue(gd, heap).kind
           /\ atCap(t) = atCap(gd)
           /\ lazyLocked(t) = OtherMode(lazyLocked(gd))
           /\ resetLocked(t) = OtherMode(resetLocked(gd))
           /\ \A e \in SomeRecords :
                 addLocked(t, heap, e) = [g |-> OtherMode(addLocked(gd, heap, e).g),
                                          h |-> addLocked(gd, heap, e).h]
           /\ \A p \in owners :
                 /\ pc[p] \notin CriticalLabels => lockedBy = 0
                 /\ StatsReturned(p) => ret[p].stats = statsLocked(t).out
                 /\ OkReturned(p) => ret[p].ok = okLocked(t).out
                 /\ ErrReturned(p) =>
                       /\ Members(heap, ret[p].view)
                             = Members(ErrHeap(t, heap), ErrValue(t, heap))
                       /\ ret[p].view.kind = ErrValue(t, heap).kind

\* Err on a thread-safe Guard with one owner returned a copy of six records
\* where the unsynchronized Guard returns its own overflow array
C36_Witness ==
    \E p \in owners :
        /\ ~Shared /\ gd.mu /\ gd.dropped = 0
        /\ ErrReturned(p)
        /\ Len(Members(heap, ret[p].view)) = 6
        /\ ret[p].view.more.arr # gd.more.arr
        /\ ErrValue(OtherMode(gd), heap).more.arr = gd.more.arr

\* the inline slots of a Guard, in order
Slots(g) == <<g.e0, g.e1, g.e2, g.e3>>

\* C37: in every reachable state with kept = n, inline slot i (0..3) holds
\* a record iff i < n and the overflow sequence has length max(0, n - 4);
\* so countNonNil4 of the slots plus the overflow length is n, and Iter,
\* which skips empty slots, visits exactly the filled slots and then the
\* overflow, in storage order: n members, none skipped or reordered.
C37_StorageShape ==
    /\ \A i \in 0..3 : (Slots(gd)[i + 1] # Nil) <=> (i < gd.n)
    /\ gd.more.len = Max(0, gd.n - 4)
    /\ countNonNil4(gd.e0, gd.e1, gd.e2, gd.e3) + gd.more.len = gd.n
    /\ Kept(gd, heap) = SubSeq(Slots(gd), 1, Min(4, gd.n)) \o Elems(heap, gd.more)
    /\ IterFrom(heap, multiError(gd.e0, gd.e1, gd.e2, gd.e3, gd.more), 1, <<>>, gd.n + 1)
          = Kept(gd, heap)
    /\ Len(Kept(gd, heap)) = gd.n
    /\ \A i \in 1..gd.n : Kept(gd, heap)[i] = arrived[i]

\* six records kept: four in the slots and two in the overflow sequence
C37_Witness ==
    /\ gd.n = 6 /\ gd.e3 # Nil /\ gd.more.len = 2 /\ gd.more.cap = 2
    /\ gd.failures = 6 /\ Len(arrived) = 6

====
